---- MODULE Spec2Model ----
(***************************************************************************)
(* Model of src/src/utils/htmlToMrkdwn.ts: the conversion of an HTML       *)
(* snippet to Slack mrkdwn by a fixed pipeline of regular-expression       *)
(* substitutions, followed by entity decoding and whitespace clean-up.     *)
(* The function is run statement by statement, once on the input and once  *)
(* more on its own result.                                                 *)
(*                                                                         *)
(* A JavaScript string is a sequence of UTF-16 code units, modelled as a   *)
(* sequence of naturals below 65536 (60 is '<', 62 is '>', 10 is '\n').   *)
(* Every regular expression of the source is translated to an operator     *)
(* XxxEnd(s, i): the index just past the match that starts at index i of   *)
(* s, or 0 when the expression does not match there, computed with the     *)
(* priorities of a backtracking matcher (greedy, lazy, ordered             *)
(* alternatives).  String.prototype.replace with the g flag is ReplaceAll.  *)
(***************************************************************************)
EXTENDS Integers, Sequences, FiniteSets, TLC

VARIABLES
    html,   \* the argument of the first call of htmlToMrkdwn
    call,   \* 1, 2: the call that is running; 3: both calls have returned
    stage,  \* 0: the call is about to start; k > 0: the k-th statement is next
    text,   \* the local variable text of the running call
    out,    \* the value the first call returned
    again   \* the value returned by the second call, htmlToMrkdwn(out)

\* the attendance buttons (src/attendance.ts, src/storage.ts)
VARIABLES
    attendance, \* the content of attendance.json: key -> user -> status
    clicks,     \* the handler of the n-th button click: its position and locals
    store       \* a call of updateAttendance or batchUpdateAttendance

\* the environment of the scheduled jobs
VARIABLES
    config,   \* the content of app-config.json
    calendar, \* the events of the Google calendar, ordered by their start
    clock     \* the time, in milliseconds: what new Date() returns

\* the meeting start alerts (src/meetingStartAnnouncements.ts)
VARIABLES
    announcedMeetings, \* the module's set of announced event ids
    checks             \* the n-th call of checkAndAnnounceMeetingStarts

\* the weekly announcement (src/announcements.ts)
VARIABLES
    weekly  \* the call of postWeeklyAnnouncement: its position, locals and messages

\* attendance keys (getAttendanceKey of src/attendance.ts)
VARIABLES
    keyed   \* an event as two calls of the calendar returned it, and its two keys

\* the daily reminders (src/reminders.ts)
VARIABLES
    postedRemindersToday, \* the module's set of posted ids, each with the date
                          \* of the call that added it
    lastReminderDate,     \* the module's date of the last reset, -1 for null
    reminders             \* the n-th call of postDailyReminders

\* the trigger endpoints (src/app.ts)
VARIABLES
    request \* the POST request to an endpoint: its handler's position and answer

\* the restricted slash commands (src/config.ts, src/eventCommands.ts) and the
\* synchronisation of the scheduler jobs (src/cloudScheduler.ts)
VARIABLES
    command, \* the invocation of a slash command: its handler's position and effects
    sync     \* the call of syncSchedulerWithConfig: its position and effects

converterVars == <<html, call, stage, text, out, again>>
attendanceVars == <<attendance, clicks, store>>
envVars == <<config, calendar, clock>>
startsVars == <<announcedMeetings, checks>>

remindersVars == <<postedRemindersToday, lastReminderDate, reminders>>

handlerVars == <<request, command, sync>>

vars ==
    <<converterVars, attendanceVars, envVars, startsVars, weekly, keyed, remindersVars,
      request, command, sync>>

(***************************************************************************)
(* The state of each part of the program after construction, before any    *)
(* request has arrived.                                                    *)
(***************************************************************************)
\* no call of htmlToMrkdwn is running
ConverterIdle ==
    html = <<>> /\ call = 3 /\ stage = 0 /\ text = <<>> /\ out = <<>> /\ again = <<>>

\* bound: the number of button clicks
MaxClicks == 2

\* the locals of a handler that has not been called
NoClick ==
    [pc |-> "idle", action |-> "none", hasValue |-> FALSE, userId |-> "none",
     eventId |-> "none", origin |-> "none", data |-> <<>>, failed |-> FALSE,
     attending |-> {}, notAttending |-> {}]

\* bound: the number of updates given to batchUpdateAttendance
MaxUpdates == 2

\* no call of updateAttendance or batchUpdateAttendance has been made; before
\* is the content of attendance.json when the call is made, which the program
\* does not keep
NoStore ==
    [pc |-> "idle", updates |-> <<>>, data |-> <<>>, timestamp |-> 0,
     before |-> <<>>, failed |-> FALSE]

\* attendance.json does not exist, no click has arrived, no update is running
AttendanceIdle ==
    /\ attendance = <<>>
    /\ clicks = [h \in 1..MaxClicks |-> NoClick]
    /\ store = NoStore

\* a field that is absent
Undefined == "undefined"

\* the field allowedChannels is absent
NoChannels == [defined |-> FALSE, list |-> <<>>]

\* app-config.json does not exist: readConfig returns {}
NoConfig ==
    [channelId |-> Undefined, calendarId |-> Undefined, timezone |-> Undefined,
     allowedChannels |-> NoChannels]

EnvIdle == config = NoConfig /\ calendar = <<>> /\ clock = 0

\* bound: the number of calls of checkAndAnnounceMeetingStarts
MaxChecks == 2

\* the locals of a call that has not been made; posted is what it sent to Slack,
\* announcedThen the value of announcedMeetings when it ran lines 36-63
NoCheck ==
    [pc |-> "idle", config |-> NoConfig, today |-> 0, now |-> 0, events |-> <<>>,
     eventsToAnnounce |-> <<>>, i |-> 0, posted |-> <<>>, announcedThen |-> {},
     failed |-> FALSE]

StartsIdle ==
    /\ announcedMeetings = {}
    /\ checks = [r \in 1..MaxChecks |-> NoCheck]

\* the locals of a call of postWeeklyAnnouncement that has not been made; localTz
\* is the timezone of the process, messages what the call sent to Slack
NoWeekly ==
    [pc |-> "idle", localTz |-> "UTC", config |-> NoConfig, events |-> <<>>,
     messages |-> <<>>, failed |-> FALSE]

WeeklyIdle == weekly = NoWeekly

\* no event has been given a key
NoEvent == [id |-> "", recurringEventId |-> Undefined, start |-> 0, end |-> 0]

NoKeyed ==
    [pc |-> "idle", timezone |-> Undefined, event |-> NoEvent, later |-> NoEvent,
     button |-> <<"", -1>>, read |-> <<"", -1>>]

KeyedIdle == keyed = NoKeyed

\* bound: the number of calls of postDailyReminders
MaxReminders == 2

\* the locals of a call of postDailyReminders that has not been made; posted
\* tells that its message went to Slack
NoReminder ==
    [pc |-> "idle", config |-> NoConfig, today |-> -1, todayEvents |-> <<>>,
     tomorrowEvents |-> <<>>, reset |-> FALSE, skipped |-> FALSE, posted |-> FALSE,
     failed |-> FALSE]

RemindersIdle ==
    /\ postedRemindersToday = {}
    /\ lastReminderDate = -1
    /\ reminders = [r \in 1..MaxReminders |-> NoReminder]

\* no request has arrived
NoRequest == [pc |-> "none", endpoint |-> "", status |-> 0, success |-> FALSE]

RequestIdle == request = NoRequest

\* no command has been invoked; ephemeral is what the handler sent to the user,
\* modal the view it opened, effect what the submission of that view did
NoCommand ==
    [pc |-> "none", name |-> "", channel |-> "", config |-> NoConfig,
     ephemeral |-> <<>>, modal |-> "none", effect |-> "none"]

CommandIdle == command = NoCommand

\* a number that is not finite
NaN == [finite |-> FALSE, value |-> 0]

\* a time of day that is absent; a present one holds the numbers that
\* split(':').map(Number) makes of its text
NoTime == [defined |-> FALSE, hours |-> NaN, minutes |-> NaN]

\* a weekly schedule that is absent
NoSchedule == [defined |-> FALSE, hasDay |-> FALSE, dayOfWeek |-> NaN, time |-> NoTime]

\* syncSchedulerWithConfig has not been called; projectId is the environment's
\* project id, patches the job updates the scheduler accepted, logged the
\* failures written to the log, threw whether the call threw, schedulerError
\* what the caller's catch kept of it
NoSync ==
    [pc |-> "idle", projectId |-> Undefined, reminderTime |-> NoTime,
     weeklySchedule |-> NoSchedule, timezone |-> Undefined, patches |-> <<>>,
     logged |-> <<>>, threw |-> FALSE, schedulerError |-> FALSE]

SyncIdle == sync = NoSync

\* everything but the attendance buttons; but the meeting start alerts; but the
\* weekly announcement; but the attendance keys; but the daily reminders
exceptAttendance ==
    <<converterVars, store, envVars, startsVars, weekly, keyed, remindersVars,
      handlerVars>>
exceptStarts == <<converterVars, attendanceVars, weekly, keyed, remindersVars, handlerVars>>
exceptWeekly == <<converterVars, attendanceVars, startsVars, keyed, remindersVars, handlerVars>>
exceptKeyed ==
    <<converterVars, attendanceVars, envVars, startsVars, weekly, remindersVars, handlerVars>>
exceptReminders == <<converterVars, attendanceVars, startsVars, weekly, keyed, handlerVars>>

\* everything but the converter
restVars ==
    <<attendanceVars, envVars, startsVars, weekly, keyed, remindersVars, request,
      command, sync>>
RestIdle ==
    /\ AttendanceIdle /\ EnvIdle /\ StartsIdle /\ WeeklyIdle /\ KeyedIdle
    /\ RemindersIdle /\ RequestIdle /\ CommandIdle /\ SyncIdle

(***************************************************************************)
(* Code units the source names.                                            *)
(***************************************************************************)
NUL == 0
NL == 10
AMP == 38
STAR == 42
SLASH == 47
SEMI == 59
LT == 60
GT == 62
UNDERSCORE == 95
PIPE == 124
TILDE == 126
QUOTE == 34
BULLET == 8226

(***************************************************************************)
(* Strings and characters.                                                 *)
(***************************************************************************)
\* s[i], or -1 past either end of s (no code unit equals -1)
At(s, i) == IF i >= 1 /\ i <= Len(s) THEN s[i] ELSE -1

\* Canonicalize of the i flag, on the ASCII letters the patterns use
Lower(c) == IF c >= 65 /\ c <= 90 THEN c + 32 ELSE c

\* \s of a JavaScript regular expression, also the set String.prototype.trim removes
IsWs(c) ==
    c \in {9, 10, 11, 12, 13, 32, 160, 5760, 8232, 8233, 8239, 8287, 12288, 65279}
    \/ (c >= 8192 /\ c <= 8202)

\* \d
IsDigit(c) == c >= 48 /\ c <= 57

\* [0-9a-fA-F]
IsHex(c) == IsDigit(c) \/ (c >= 97 /\ c <= 102) \/ (c >= 65 /\ c <= 70)

\* the literal lit (lower case) matches s at i, under the i flag
MatchCI(s, i, lit) == \A k \in 1..Len(lit) : Lower(At(s, i + k - 1)) = lit[k]

\* the literal lit matches s at i, case-sensitively
MatchCS(s, i, lit) == \A k \in 1..Len(lit) : At(s, i + k - 1) = lit[k]

\* least and greatest element of a non-empty set of integers
Min(S) == CHOOSE x \in S : \A y \in S : x <= y
Max(S) == CHOOSE x \in S : \A y \in S : y <= x

\* index of the first c at or after i, or 0
FindChar(s, i, c) ==
    LET S == {j \in i..Len(s) : s[j] = c} IN IF S = {} THEN 0 ELSE Min(S)

\* index of the first place at or after i where lit matches under the i flag, or 0
FindCI(s, i, lit) ==
    LET S == {j \in i..Len(s) : MatchCI(s, j, lit)} IN IF S = {} THEN 0 ELSE Min(S)

\* \s* from i: the index of the first code unit at or after i that is not whitespace
SkipWs(s, i) == Min({j \in i..(Len(s) + 1) : ~IsWs(At(s, j))})

\* \d* from i
SkipDigits(s, i) == Min({j \in i..(Len(s) + 1) : ~IsDigit(At(s, j))})

\* [0-9a-fA-F]* from i
SkipHex(s, i) == Min({j \in i..(Len(s) + 1) : ~IsHex(At(s, j))})

\* \n* from i
SkipNl(s, i) == Min({j \in i..(Len(s) + 1) : At(s, j) # NL})

\* index of the last code unit at or before i that is not whitespace, or 0
BackWs(s, i) == Max({j \in 0..i : ~IsWs(At(s, j))})

\* String.prototype.trim
Trim(s) == SubSeq(s, SkipWs(s, 1), BackWs(s, Len(s)))

(***************************************************************************)
(* The regular expressions of htmlToMrkdwn, one operator each.             *)
(***************************************************************************)
\* /<br\s*\/?>/gi
BrEnd(s, i) ==
    IF MatchCI(s, i, <<60, 98, 114>>)                          \* <br
    THEN LET j == SkipWs(s, i + 3)
             k == IF At(s, j) = SLASH THEN j + 1 ELSE j
         IN  IF At(s, k) = GT THEN k + 1 ELSE 0
    ELSE 0

\* /<\/p>\s*<p[^>]*>/gi
PBetweenEnd(s, i) ==
    IF MatchCI(s, i, <<60, 47, 112, 62>>)                      \* </p>
    THEN LET j == SkipWs(s, i + 4)
         IN  IF MatchCI(s, j, <<60, 112>>)                     \* <p
             THEN LET g == FindChar(s, j + 2, GT)
                  IN  IF g > 0 THEN g + 1 ELSE 0
             ELSE 0
    ELSE 0

\* /<p[^>]*>/gi
POpenEnd(s, i) ==
    IF MatchCI(s, i, <<60, 112>>)                              \* <p
    THEN LET g == FindChar(s, i + 2, GT)
         IN  IF g > 0 THEN g + 1 ELSE 0
    ELSE 0

\* /<\/p>/gi
PCloseEnd(s, i) == IF MatchCI(s, i, <<60, 47, 112, 62>>) THEN i + 4 ELSE 0

\* href=" under the i flag
HREF == <<104, 114, 101, 102, 61, 34>>

\* The tail href="([^"]*)"[^>]*>([\s\S]*?)<\/a> of the anchor pattern, tried with
\* the h of href at j: q the closing quote, g the '>' of the tag, c the '<' of the
\* first </a> after it (c = 0: the tail does not match at j).
LinkRest(s, j) ==
    LET q == FindChar(s, j + 6, QUOTE)
        g == IF q > 0 THEN FindChar(s, q + 1, GT) ELSE 0
        c == IF g > 0 THEN FindCI(s, g + 1, <<60, 47, 97, 62>>) ELSE 0
    IN  [q |-> q, g |-> g, c |-> c]

\* The places of href=" that <a\s+[^>]*href="..."...</a> can use for a match at i:
\* \s+ needs whitespace right after <a, [^>]* cannot cross a '>'.
LinkHrefs(s, i) ==
    IF MatchCI(s, i, <<60, 97>>) /\ IsWs(At(s, i + 2))         \* <a\s
    THEN LET lim == FindChar(s, i + 3, GT)
             last == IF lim = 0 THEN Len(s) ELSE lim
         IN  {j \in (i + 3)..last : MatchCI(s, j, HREF) /\ LinkRest(s, j).c > 0}
    ELSE {}

\* [^>]* is greedy: the backtracking matcher settles on the last usable href="
LinkHref(s, i) == Max(LinkHrefs(s, i))

\* /<a\s+[^>]*href="([^"]*)"[^>]*>([\s\S]*?)<\/a>/gi
LinkEnd(s, i) ==
    IF LinkHrefs(s, i) = {} THEN 0 ELSE LinkRest(s, LinkHref(s, i)).c + 4

\* '\x00LINK_START' and '\x00LINK_END'
LINK_START == <<0, 76, 73, 78, 75, 95, 83, 84, 65, 82, 84>>
LINK_END == <<0, 76, 73, 78, 75, 95, 69, 78, 68>>

\* '\x00LINK_START$1|$2\x00LINK_END'
LinkRepl(s, i, e) ==
    LET j == LinkHref(s, i)
        r == LinkRest(s, j)
    IN  LINK_START \o SubSeq(s, j + 6, r.q - 1) \o <<PIPE>>
            \o SubSeq(s, r.g + 1, r.c - 1) \o LINK_END

\* [^>]*> from i, in the place of (?:\s[^>]*)?>
AttrsEndAny(s, i) == LET g == FindChar(s, i, GT) IN IF g > 0 THEN g + 1 ELSE 0

\* (?:\s[^>]*)?> from i
AttrsEnd(s, i) ==
    IF At(s, i) = GT THEN i + 1
    ELSE IF IsWs(At(s, i))
         THEN LET g == FindChar(s, i + 1, GT) IN IF g > 0 THEN g + 1 ELSE 0
         ELSE 0

\* /<\/?(?:n1|n2|...)(?:\s[^>]*)?>/gi, names the alternatives in their order
NamedTagEnd(s, i, names) ==
    IF At(s, i) # LT THEN 0
    ELSE LET k == IF At(s, i + 1) = SLASH THEN i + 2 ELSE i + 1
             ends == [n \in 1..Len(names) |->
                         IF MatchCI(s, k, names[n])
                         THEN AttrsEnd(s, k + Len(names[n])) ELSE 0]
             hits == {n \in 1..Len(names) : ends[n] > 0}
         IN  IF hits = {} THEN 0
             ELSE ends[Min(hits)]

\* /<\/?(?:b|strong)(?:\s[^>]*)?>/gi
BoldEnd(s, i) == NamedTagEnd(s, i, <<(<<98>>), <<115, 116, 114, 111, 110, 103>>>>)

\* /<\/?(?:i|em)(?:\s[^>]*)?>/gi
ItalicEnd(s, i) == NamedTagEnd(s, i, <<(<<105>>), <<101, 109>>>>)

\* /<\/?(?:s|strike|del)(?:\s[^>]*)?>/gi
StrikeEnd(s, i) ==
    NamedTagEnd(s, i, <<(<<115>>), <<115, 116, 114, 105, 107, 101>>, <<100, 101, 108>>>>)

\* /<\/?(?:ul|ol)(?:\s[^>]*)?>/gi
ListTagEnd(s, i) == NamedTagEnd(s, i, <<(<<117, 108>>), <<111, 108>>>>)

\* <li[^>]*>([\s\S]*?)<\/li> at i: g the '>' of <li ...>, c the '<' of the first
\* </li> after it (c = 0: no match)
LiParts(s, i) ==
    IF MatchCI(s, i, <<60, 108, 105>>)                         \* <li
    THEN LET g == FindChar(s, i + 3, GT)
             c == IF g > 0 THEN FindCI(s, g + 1, <<60, 47, 108, 105, 62>>) ELSE 0
         IN  [g |-> g, c |-> c]
    ELSE [g |-> 0, c |-> 0]

\* /<li[^>]*>([\s\S]*?)<\/li>/gi
LiEnd(s, i) == IF LiParts(s, i).c > 0 THEN LiParts(s, i).c + 5 ELSE 0

\* `\n• ${content.trim()}`
LiRepl(s, i, e) ==
    <<NL, BULLET, 32>> \o Trim(SubSeq(s, LiParts(s, i).g + 1, LiParts(s, i).c - 1))

\* [1-6]
IsLevel(c) == c >= 49 /\ c <= 54

\* index of the first <\/h[1-6]> at or after i, or 0
FindHClose(s, i) ==
    LET S == {j \in i..Len(s) : /\ MatchCI(s, j, <<60, 47, 104>>)
                                /\ IsLevel(At(s, j + 3))
                                /\ At(s, j + 4) = GT}
    IN  IF S = {} THEN 0 ELSE Min(S)

\* <h[1-6][^>]*>([\s\S]*?)<\/h[1-6]> at i
HParts(s, i) ==
    IF MatchCI(s, i, <<60, 104>>) /\ IsLevel(At(s, i + 2))     \* <h[1-6]
    THEN LET g == FindChar(s, i + 3, GT)
             c == IF g > 0 THEN FindHClose(s, g + 1) ELSE 0
         IN  [g |-> g, c |-> c]
    ELSE [g |-> 0, c |-> 0]

\* /<h[1-6][^>]*>([\s\S]*?)<\/h[1-6]>/gi
HEnd(s, i) == IF HParts(s, i).c > 0 THEN HParts(s, i).c + 5 ELSE 0

\* `\n*${content.trim()}*\n`
HRepl(s, i, e) ==
    <<NL, STAR>> \o Trim(SubSeq(s, HParts(s, i).g + 1, HParts(s, i).c - 1)) \o <<STAR, NL>>

\* /<[^>]+>/g
StripEnd(s, i) ==
    IF At(s, i) = LT /\ At(s, i + 1) # GT /\ i + 1 <= Len(s)
    THEN LET g == FindChar(s, i + 2, GT) IN IF g > 0 THEN g + 1 ELSE 0
    ELSE 0

\* /\n{3,}/g
NewlinesEnd(s, i) ==
    IF At(s, i) = NL /\ At(s, i + 1) = NL /\ At(s, i + 2) = NL
    THEN SkipNl(s, i + 3) ELSE 0

(***************************************************************************)
(* The patterns of decodeHtmlEntities.                                     *)
(***************************************************************************)
\* the value of one digit of radix 10 or 16
DigitVal(c) == IF IsDigit(c) THEN c - 48 ELSE IF c >= 97 THEN c - 87 ELSE c - 55

\* parseInt(s[a..b], radix) for a run of digits of that radix (exact below 2^31)
RECURSIVE ParseInt(_, _, _, _)
ParseInt(s, a, b, radix) ==
    IF b < a THEN 0 ELSE ParseInt(s, a, b - 1, radix) * radix + DigitVal(s[b])

\* String.fromCodePoint(n) in the place of String.fromCharCode(n): a RangeError
\* (written -1, which is no code unit) above 0x10FFFF
FromCodePoint(n) == IF n > 1114111 THEN -1 ELSE n % 65536

\* U+FFFD for a value above 0xFFFF, in the place of ToUint16(n)
FromCharCodeOrReplacement(n) == IF n > 65535 THEN 65533 ELSE n

\* String.fromCharCode(n): ToUint16(n), one code unit, for every n
FromCharCode(n) == n % 65536

\* /&#(\d+);/g
DecEnd(s, i) ==
    IF MatchCS(s, i, <<38, 35>>)                               \* &#
    THEN LET d == SkipDigits(s, i + 2)
         IN  IF d > i + 2 /\ At(s, d) = SEMI THEN d + 1 ELSE 0
    ELSE 0

\* /&#x([0-9a-fA-F]+);/g
HexEnd(s, i) ==
    IF MatchCS(s, i, <<38, 35, 120>>)                          \* &#x
    THEN LET d == SkipHex(s, i + 3)
         IN  IF d > i + 3 /\ At(s, d) = SEMI THEN d + 1 ELSE 0
    ELSE 0

(***************************************************************************)
(* String.prototype.replace with a g pattern, and split(lit).join(rep).    *)
(***************************************************************************)
\* a regular expression of the source, by name
Regex(name) == [re |-> name]

\* a pattern that is a literal string without the i flag, and what replaces it
Literal(lit, rep) == [re |-> "literal", lit |-> lit, rep |-> rep]

\* the end of the match of pattern p at index i of s (the index just past it), 0: none
MatchEnd(p, s, i) ==
    CASE p.re = "literal" -> IF MatchCS(s, i, p.lit) THEN i + Len(p.lit) ELSE 0
      [] p.re = "br" -> BrEnd(s, i)
      [] p.re = "pBetween" -> PBetweenEnd(s, i)
      [] p.re = "pOpen" -> POpenEnd(s, i)
      [] p.re = "pClose" -> PCloseEnd(s, i)
      [] p.re = "link" -> LinkEnd(s, i)
      [] p.re = "bold" -> BoldEnd(s, i)
      [] p.re = "italic" -> ItalicEnd(s, i)
      [] p.re = "strike" -> StrikeEnd(s, i)
      [] p.re = "li" -> LiEnd(s, i)
      [] p.re = "listTag" -> ListTagEnd(s, i)
      [] p.re = "heading" -> HEnd(s, i)
      [] p.re = "strip" -> StripEnd(s, i)
      [] p.re = "dec" -> DecEnd(s, i)
      [] p.re = "hex" -> HexEnd(s, i)
      [] p.re = "newlines" -> NewlinesEnd(s, i)

\* what replaces the match of pattern p that spans s[i..e-1]
Replacement(p, s, i, e) ==
    CASE p.re = "literal" -> p.rep
      [] p.re = "br" -> <<NL>>
      [] p.re = "pBetween" -> <<NL, NL>>
      [] p.re = "pOpen" -> <<>>
      [] p.re = "pClose" -> <<NL, NL>>
      [] p.re = "link" -> LinkRepl(s, i, e)
      [] p.re = "bold" -> <<STAR>>
      [] p.re = "italic" -> <<UNDERSCORE>>
      [] p.re = "strike" -> <<TILDE>>
      [] p.re = "li" -> LiRepl(s, i, e)
      [] p.re = "listTag" -> <<NL>>
      [] p.re = "heading" -> HRepl(s, i, e)
      [] p.re = "strip" -> <<>>
      [] p.re = "dec" -> <<FromCharCode(ParseInt(s, i + 2, e - 2, 10))>>
      [] p.re = "hex" -> <<FromCharCode(ParseInt(s, i + 3, e - 2, 16))>>
      [] p.re = "newlines" -> <<NL, NL>>

\* s.replace(p, r) for a g pattern: the matches are taken left to right and do
\* not overlap.  step(a) is one step of the scan at index a: a match is replaced
\* and the scan goes on after it, any other code unit is copied.  scan[a, b]
\* runs the steps from a until the scan reaches b or passes it; it is evaluated
\* by halving the range.
ReplaceAll(s, p) ==
    LET n == Len(s)
        step(a) ==
            LET e == MatchEnd(p, s, a)
            IN  IF e > 0 THEN [text |-> Replacement(p, s, a, e), pos |-> e]
                ELSE [text |-> <<s[a]>>, pos |-> a + 1]
        scan[a \in 1..n, b \in 2..(n + 1)] ==
            IF b = a + 1 THEN step(a)
            ELSE LET l == scan[a, (a + b) \div 2]
                 IN  IF l.pos >= b THEN l
                     ELSE LET r == scan[l.pos, b]
                          IN  [text |-> l.text \o r.text, pos |-> r.pos]
    IN  IF n = 0 THEN <<>> ELSE scan[1, n + 1].text

(***************************************************************************)
(* decodeHtmlEntities                                                      *)
(***************************************************************************)
\* the entities table, in the order Object.entries enumerates it: entity, replacement
Entities ==
    << <<(<<38, 97, 109, 112, 59>>), 38>>,                     \* &amp;    &
       <<(<<38, 108, 116, 59>>), 60>>,                         \* &lt;     <
       <<(<<38, 103, 116, 59>>), 62>>,                         \* &gt;     >
       <<(<<38, 110, 98, 115, 112, 59>>), 32>>,                \* &nbsp;   space
       <<(<<38, 113, 117, 111, 116, 59>>), 34>>,               \* &quot;   "
       <<(<<38, 35, 51, 57, 59>>), 39>>,                       \* &#39;    '
       <<(<<38, 97, 112, 111, 115, 59>>), 39>>,                \* &apos;   '
       <<(<<38, 110, 100, 97, 115, 104, 59>>), 8211>>,         \* &ndash;
       <<(<<38, 109, 100, 97, 115, 104, 59>>), 8212>>,         \* &mdash;
       <<(<<38, 104, 101, 108, 108, 105, 112, 59>>), 8230>>,   \* &hellip;
       <<(<<38, 108, 97, 113, 117, 111, 59>>), 171>>,          \* &laquo;
       <<(<<38, 114, 97, 113, 117, 111, 59>>), 187>>,          \* &raquo;
       <<(<<38, 98, 117, 108, 108, 59>>), 8226>>,              \* &bull;
       <<(<<38, 99, 111, 112, 121, 59>>), 169>>,               \* &copy;
       <<(<<38, 114, 101, 103, 59>>), 174>>,                   \* &reg;
       <<(<<38, 116, 114, 97, 100, 101, 59>>), 8482>> >>       \* &trade;

\* for (const [entity, replacement] of Object.entries(entities))
\*   result = result.split(entity).join(replacement), from the k-th entry on
RECURSIVE DecodeNamed(_, _)
DecodeNamed(s, k) ==
    IF k > Len(Entities) THEN s
    ELSE DecodeNamed(ReplaceAll(s, Literal(Entities[k][1], <<Entities[k][2]>>)), k + 1)

\* the two numeric passes of decodeHtmlEntities
DecodeNumeric(s) == ReplaceAll(ReplaceAll(s, Regex("dec")), Regex("hex"))

decodeHtmlEntities(t) == DecodeNumeric(DecodeNamed(t, 1))

(***************************************************************************)
(* htmlToMrkdwn: the stages, in the order of the source.                   *)
(***************************************************************************)
\* line 20
StageBr(t) == ReplaceAll(t, Regex("br"))

\* lines 23-24, without the closing tags of line 25
StageParagraphsNoClose(t) == ReplaceAll(ReplaceAll(t, Regex("pBetween")), Regex("pOpen"))

\* lines 23-25
StageParagraphs(t) ==
    ReplaceAll(ReplaceAll(ReplaceAll(t, Regex("pBetween")), Regex("pOpen")), Regex("pClose"))

\* lines 29-32
StageLinks(t) == ReplaceAll(t, Regex("link"))

\* lines 35-41
StageInline(t) ==
    ReplaceAll(ReplaceAll(ReplaceAll(t, Regex("bold")), Regex("italic")), Regex("strike"))

\* lines 44-47
StageLists(t) == ReplaceAll(ReplaceAll(t, Regex("li")), Regex("listTag"))

\* lines 50-52
StageHeadings(t) == ReplaceAll(t, Regex("heading"))

\* line 55
StageStrip(t) == ReplaceAll(t, Regex("strip"))

\* lines 58-59
StageRestore(t) ==
    ReplaceAll(ReplaceAll(t, Literal(LINK_START, <<LT>>)), Literal(LINK_END, <<GT>>))

\* lines 65-66 without the collapse of line 65
StageWhitespaceNoCollapse(t) == Trim(t)

\* lines 65-66
StageWhitespace(t) == Trim(ReplaceAll(t, Regex("newlines")))

\* the statements with the whitespace clean-up of lines 65-66 moved before the
\* decoding of line 62
StagesTrimEarly ==
    <<"br", "paragraphs", "links", "inline", "lists", "headings",
      "strip", "restore", "whitespace", "decode">>

\* the statements with the decoding of line 62 moved before the strip of line 55
StagesDecodeEarly ==
    <<"br", "paragraphs", "links", "inline", "lists", "headings",
      "decode", "strip", "restore", "whitespace">>

\* the statements text = ... of htmlToMrkdwn, in the order of the source
Stages ==
    <<"br", "paragraphs", "links", "inline", "lists", "headings",
      "strip", "restore", "decode", "whitespace">>

\* the statement st, run on the value t of text
Apply(st, t) ==
    CASE st = "br" -> StageBr(t)
      [] st = "paragraphs" -> StageParagraphs(t)
      [] st = "links" -> StageLinks(t)
      [] st = "inline" -> StageInline(t)
      [] st = "lists" -> StageLists(t)
      [] st = "headings" -> StageHeadings(t)
      [] st = "strip" -> StageStrip(t)
      [] st = "restore" -> StageRestore(t)
      [] st = "decode" -> decodeHtmlEntities(t)
      [] st = "whitespace" -> StageWhitespace(t)

(***************************************************************************)
(* The state machine: one call of htmlToMrkdwn on an input, then a second  *)
(* call on what the first returned.                                        *)
(***************************************************************************)
\* the strings made of at most n pieces of T, concatenated
RECURSIVE Concats(_, _)
Concats(T, n) ==
    IF n = 0 THEN {<<>>}
    ELSE LET P == Concats(T, n - 1) IN P \cup {p \o x : p \in P, x \in T}

\* the documents made of at most n forms of T: what is written, and the output
\* that is expected of it, each the concatenation of what the forms give
RECURSIVE Docs(_, _)
Docs(T, n) ==
    IF n = 0 THEN {[text |-> <<>>, expect |-> <<>>]}
    ELSE LET P == Docs(T, n - 1)
         IN  P \cup {[text |-> p.text \o x.text, expect |-> p.expect \o x.expect] :
                        p \in P, x \in T}

\* the argument of the running call
Arg == IF call = 1 THEN html ELSE out

\* return v
Return(v) ==
    /\ IF call = 1 THEN out' = v /\ again' = again
                   ELSE again' = v /\ out' = out
    /\ call' = call + 1
    /\ stage' = 0
    /\ text' = <<>>

\* lines 15-17: if (!html) return html; let text = html
Enter ==
    /\ call \in {1, 2}
    /\ stage = 0
    /\ IF Arg = <<>>
       THEN Return(Arg)
       ELSE text' = Arg /\ stage' = 1 /\ UNCHANGED <<call, out, again>>
    /\ UNCHANGED html
    /\ UNCHANGED restVars

\* lines 20-66: the next statement text = ...
Step ==
    /\ stage \in 1..Len(Stages)
    /\ text' = Apply(Stages[stage], text)
    /\ stage' = stage + 1
    /\ UNCHANGED <<html, call, out, again>>
    /\ UNCHANGED restVars

\* line 68: return text
Leave ==
    /\ stage = Len(Stages) + 1
    /\ Return(text)
    /\ UNCHANGED html
    /\ UNCHANGED restVars

Next == Enter \/ Step \/ Leave

\* the state before the call on input h
Start(h) ==
    /\ html = h /\ call = 1 /\ stage = 0 /\ text = <<>> /\ out = <<>> /\ again = <<>>
    /\ RestIdle

\* the first call has returned; both calls have returned
Converted == call >= 2
Reconverted == call = 3

(***************************************************************************)
(* Bounds of the inputs.                                                   *)
(***************************************************************************)
\* the number of pieces an input is assembled from
MaxPieces == 3

\* the longest run of <br> between two words
MaxBr == 4

\* the number of paragraphs of a document
MaxParas == 3

\* the number of inline tags and letters of a document
MaxTags == 2

\* the number of entities and letters of a document
MaxEntities == 2

\* a string of JavaScript: a sequence of UTF-16 code units
IsString(v) == v \in Seq(0..65535)

(***************************************************************************)
(* Inputs that are not valid HTML: stray and unbalanced brackets, unclosed *)
(* tags, malformed and out-of-range numeric entities.                      *)
(***************************************************************************)
BrokenPieces ==
    { <<60>>,                                                  \* <
      <<62>>,                                                  \* >
      <<38, 35>>,                                              \* &#
      <<120>>,                                                 \* x
      <<59>>,                                                  \* ;
      <<49>>,                                                  \* 1
      <<60, 97, 32, 104, 114, 101, 102, 61, 34, 117, 34, 62>>, \* <a href="u">
      <<60, 47, 97, 62>>,                                      \* </a>
      <<60, 108, 105, 62>>,                                    \* <li>
      <<38, 35, 49, 49, 49, 52, 49, 49, 50, 59>>,              \* &#1114112;
      <<38, 35, 120, 70, 70, 70, 70, 70, 70, 70, 59>> }        \* &#xFFFFFFF;

InitBroken == \E h \in Concats(BrokenPieces, MaxPieces) : Start(h)

SpecBroken == InitBroken /\ [][Next]_vars

\* C1: for every input string, valid HTML or not, htmlToMrkdwn returns a string
\* and never throws: both calls end with a sequence of code units.
C1_AlwaysReturnsString ==
    /\ Converted => IsString(out)
    /\ Reconverted => IsString(again)

\* a malformed entity, an unclosed tag and an entity above 0x10FFFF went through
C1_Witness ==
    /\ Converted
    /\ html = <<38, 35>> \o <<60, 108, 105, 62>> \o <<38, 35, 49, 49, 49, 52, 49, 49, 50, 59>>
    /\ out = <<38, 35, 0>>

(***************************************************************************)
(* Inputs of anchors among stray brackets and plain text.                  *)
(***************************************************************************)
\* an anchor as written, and the Slack link it stands for
AnchorForms ==
    { [text |-> <<60, 97, 32, 104, 114, 101, 102, 61, 34, 117, 34, 62,
                  76, 60, 47, 97, 62>>,                        \* <a href="u">L</a>
       link |-> <<60, 117, 124, 76, 62>>],                     \* <u|L>
      [text |-> <<60, 97, 32, 99, 108, 97, 115, 115, 61, 34, 99, 34, 32,
                  104, 114, 101, 102, 61, 34, 117, 34, 32, 105, 100, 61, 34, 105, 34, 62,
                  76, 60, 47, 97, 62>>,                        \* <a class="c" href="u" id="i">L</a>
       link |-> <<60, 117, 124, 76, 62>>],                     \* <u|L>
      [text |-> <<60, 65, 32, 72, 82, 69, 70, 61, 34, 117, 34, 62,
                  60, 98, 62, 76, 60, 47, 98, 62, 60, 47, 65, 62>>, \* <A HREF="u"><b>L</b></A>
       link |-> <<60, 117, 124, 42, 76, 42, 62>>] }            \* <u|*L*>

LinkPieces ==
    {f.text : f \in AnchorForms} \cup
    { <<60>>,                                                  \* <
      <<62>>,                                                  \* >
      <<32>>,                                                  \* space
      <<120>> }                                                \* x

InitLink == \E h \in Concats(LinkPieces, MaxPieces) : Start(h)

SpecLink == InitLink /\ [][Next]_vars

\* sub occurs in s
Contains(s, sub) == \E i \in 1..(Len(s) - Len(sub) + 1) : MatchCS(s, i, sub)

\* C2: whenever an anchor occurs in the input, whatever text surrounds it, the
\* output contains its link <URL|LABEL'> with both angle brackets.
C2_LinkSurvives ==
    Converted => \A f \in AnchorForms : Contains(html, f.text) => Contains(out, f.link)

(***************************************************************************)
(* Inputs of line breaks, blank space and plain words.                     *)
(***************************************************************************)
SpacePieces ==
    { <<60, 98, 114, 62>>,                                     \* <br>
      <<60, 98, 114, 32, 47, 62>>,                             \* <br />
      <<10>>,                                                  \* \n
      <<32>>,                                                  \* space
      <<97>>,                                                  \* a
      <<60, 47, 112, 62>>,                                     \* </p>
      <<60, 117, 108, 62>>,                                    \* <ul>
      <<38, 35, 49, 48, 59>>,                                  \* &#10;
      <<38, 110, 98, 115, 112, 59>> }                          \* &nbsp;

\* k times <br>
RECURSIVE BrRun(_)
BrRun(k) == IF k = 0 THEN <<>> ELSE <<60, 98, 114, 62>> \o BrRun(k - 1)

\* a, k times <br>, b
BrDoc(k) == <<97>> \o BrRun(k) \o <<98>>

InitSpace ==
    \E h \in Concats(SpacePieces, MaxPieces) \cup {BrDoc(k) : k \in 2..MaxBr} : Start(h)

SpecSpace == InitSpace /\ [][Next]_vars

NoThreeNewlines(s) ==
    \A i \in 1..(Len(s) - 2) : ~(s[i] = NL /\ s[i + 1] = NL /\ s[i + 2] = NL)

Trimmed(s) == s = <<>> \/ (~IsWs(s[1]) /\ ~IsWs(s[Len(s)]))

\* C3: the output holds no run of three or more newlines and no leading or
\* trailing whitespace; two or more <br> between two words leave exactly one
\* blank line between them.
C3_WhitespaceNormalized ==
    Converted =>
        /\ NoThreeNewlines(out)
        /\ Trimmed(out)
        /\ \A k \in 2..MaxBr : html = BrDoc(k) => out = <<97, 10, 10, 98>>

\* three or more <br> between two words were collapsed
C3_Witness ==
    /\ Converted
    /\ \E k \in 3..MaxBr : html = BrDoc(k)
    /\ out = <<97, 10, 10, 98>>

\* s holds no HTML markup: no tag bracket, no entity and no link placeholder
NoMarkup(s) == \A i \in 1..Len(s) : s[i] \notin {LT, GT, AMP, NUL}

\* C4: an input that is empty or holds no HTML markup is returned unchanged,
\* character for character.
C4_PlainTextUnchanged == Converted /\ NoMarkup(html) => out = html

(***************************************************************************)
(* Inputs of entities, pieces of entities and of link placeholders.        *)
(***************************************************************************)
EntityPieces ==
    { <<38, 97, 109, 112, 59>>,                                \* &amp;
      <<97, 109, 112, 59>>,                                    \* amp;
      <<108, 116, 59>>,                                        \* lt;
      <<60, 98, 62>>,                                          \* <b>
      <<38, 110, 98, 115, 112, 59>>,                           \* &nbsp;
      <<97>>,                                                  \* a
      <<38, 35, 48, 59>>,                                      \* &#0;
      <<76, 73, 78, 75, 95, 69, 78, 68>>,                      \* LINK_END
      <<10>> }                                                 \* \n

InitEntity == \E h \in Concats(EntityPieces, MaxPieces) : Start(h)

SpecEntity == InitEntity /\ [][Next]_vars

NoBrackets(s) == \A i \in 1..Len(s) : s[i] \notin {LT, GT}

\* an entity that decodeHtmlEntities decodes occurs in s
HasEntity(s) ==
    \E i \in 1..Len(s) :
        \/ \E k \in 1..Len(Entities) : MatchCS(s, i, Entities[k][1])
        \/ DecEnd(s, i) > 0
        \/ HexEnd(s, i) > 0

\* a link placeholder of lines 58-59 occurs in s
HasPlaceholder(s) == Contains(s, LINK_START) \/ Contains(s, LINK_END)

\* C5 as stated: an output without '<' and '>' is a fixed point of htmlToMrkdwn.
C5_IdempotentWithoutBrackets == Reconverted /\ NoBrackets(out) => again = out

\* C5: an output without '<' and '>', without an entity that decodeHtmlEntities
\* decodes and without a link placeholder is a fixed point of htmlToMrkdwn.
C5_IdempotentWithoutPatterns ==
    Reconverted /\ NoBrackets(out) /\ ~HasEntity(out) /\ ~HasPlaceholder(out)
        => again = out

\* a converted output that keeps a bare '&' was converted again and came back
C5_Witness ==
    /\ Reconverted
    /\ html = <<38, 97, 109, 112, 59>> \o <<97>> \o <<60, 98, 62>>
    /\ out = <<38, 97, 42>>
    /\ again = out

(***************************************************************************)
(* Inputs of entities next to tags and inside the attributes of tags.      *)
(***************************************************************************)
\* what is written, and what the output holds in its place
OrderForms ==
    { [text |-> <<38, 108, 116, 59, 98, 38, 103, 116, 59>>,    \* &lt;b&gt;
       expect |-> <<60, 98, 62>>],                             \* <b>
      [text |-> <<38, 108, 116, 59>>, expect |-> <<LT>>],      \* &lt;
      [text |-> <<38, 103, 116, 59>>, expect |-> <<GT>>],      \* &gt;
      [text |-> <<38, 35, 54, 48, 59>>, expect |-> <<LT>>],    \* &#60;
      [text |-> <<38, 97, 109, 112, 59>>, expect |-> <<AMP>>], \* &amp;
      [text |-> <<98>>, expect |-> <<98>>],                    \* b
      [text |-> <<60, 98, 62>>, expect |-> <<STAR>>],          \* <b>
      [text |-> <<60, 115, 112, 97, 110, 32, 116, 105, 116, 108, 101, 61, 34,
                  38, 113, 117, 111, 116, 59, 38, 103, 116, 59, 38, 97, 109, 112, 59,
                  34, 62>>,                                    \* <span title="&quot;&gt;&amp;">
       expect |-> <<>>],
      [text |-> <<60, 47, 115, 112, 97, 110, 62>>,             \* </span>
       expect |-> <<>>] }

OrderDocs == Docs(OrderForms, MaxPieces)

InitOrder == \E d \in OrderDocs : Start(d.text)

SpecOrder == InitOrder /\ [][Next]_vars

\* C6: decoding runs after the strip: the characters an entity decodes to are in
\* the output as text, next to the delimiters of the real tags, and nothing of
\* the entities inside the attributes of a stripped tag is in the output.
C6_DecodedAfterStrip ==
    Converted => \A d \in OrderDocs : html = d.text => out = d.expect

\* &lt;b&gt; inside a span whose attribute holds entities came out as the text <b>
C6_Witness ==
    /\ Converted
    /\ html = <<60, 115, 112, 97, 110, 32, 116, 105, 116, 108, 101, 61, 34,
                38, 113, 117, 111, 116, 59, 38, 103, 116, 59, 38, 97, 109, 112, 59,
                34, 62>>
              \o <<38, 108, 116, 59, 98, 38, 103, 116, 59>>
              \o <<60, 47, 115, 112, 97, 110, 62>>
    /\ out = <<60, 98, 62>>

(***************************************************************************)
(* Inputs of paragraphs one after the other, and of text after the last.   *)
(***************************************************************************)
POpens ==
    { <<60, 112, 62>>,                                         \* <p>
      <<60, 80, 32, 99, 108, 97, 115, 115, 61, 34, 120, 34, 62>> }  \* <P class="x">

PContents ==
    { <<65>>,                                                  \* A
      <<98, 32, 99>> }                                         \* b c

\* what may stand between </p> and the next <p>
PSeps ==
    { <<>>,
      <<10, 32>> }                                             \* \n and a space

\* text after the last </p>
PTails ==
    { <<120>> }                                                \* x

PClose == <<60, 47, 112, 62>>                                  \* </p>

OnePara == {[text |-> o \o c \o PClose, expect |-> c] : o \in POpens, c \in PContents}

\* up to n paragraphs, and the contents two newlines apart
RECURSIVE Paras(_)
Paras(n) ==
    IF n = 1 THEN OnePara
    ELSE LET P == Paras(n - 1)
         IN  P \cup {[text |-> p.text \o s \o q.text,
                      expect |-> p.expect \o <<NL, NL>> \o q.expect] :
                        p \in P, s \in PSeps, q \in OnePara}

ParaDocs ==
    Paras(MaxParas) \cup
    {[text |-> p.text \o tl, expect |-> p.expect \o <<NL, NL>> \o tl] :
        p \in Paras(MaxParas), tl \in PTails}

InitPara == \E d \in ParaDocs : Start(d.text)

SpecPara == InitPara /\ [][Next]_vars

\* C7: the contents of consecutive paragraphs, and the last content and the text
\* after its </p>, are exactly two newlines apart in the output, and nothing
\* follows the last content.
C7_ParagraphsBlankLine ==
    Converted => \A d \in ParaDocs : html = d.text => out = d.expect

\* two paragraphs with whitespace between them and text after the second
C7_Witness ==
    /\ Converted
    /\ html = <<60, 112, 62, 65>> \o PClose \o <<10, 32>>
              \o <<60, 80, 32, 99, 108, 97, 115, 115, 61, 34, 120, 34, 62, 98, 32, 99>>
              \o PClose \o <<120>>
    /\ out = <<65, 10, 10, 98, 32, 99, 10, 10, 120>>

(***************************************************************************)
(* Inputs of inline tags: the names of lines 35-41 in either case, opening *)
(* and closing, with and without attributes, and names that start alike.   *)
(***************************************************************************)
InlineForms ==
    { [text |-> <<60, 98, 62>>,                                  \* <b>
       expect |-> <<STAR>>],
      [text |-> <<60, 47, 98, 62>>,                              \* </b>
       expect |-> <<STAR>>],
      [text |-> <<60, 83, 84, 82, 79, 78, 71, 32, 99, 108, 97, 115, 115, 61, 34, 120, 34, 62>>, \* <STRONG class="x">
       expect |-> <<STAR>>],
      [text |-> <<60, 47, 83, 116, 114, 111, 110, 103, 62>>,     \* </Strong>
       expect |-> <<STAR>>],
      [text |-> <<60, 105, 62>>,                                 \* <i>
       expect |-> <<UNDERSCORE>>],
      [text |-> <<60, 47, 73, 62>>,                              \* </I>
       expect |-> <<UNDERSCORE>>],
      [text |-> <<60, 101, 109, 32, 105, 100, 61, 34, 101, 34, 62>>, \* <em id="e">
       expect |-> <<UNDERSCORE>>],
      [text |-> <<60, 47, 69, 77, 62>>,                          \* </EM>
       expect |-> <<UNDERSCORE>>],
      [text |-> <<60, 115, 62>>,                                 \* <s>
       expect |-> <<TILDE>>],
      [text |-> <<60, 47, 83, 62>>,                              \* </S>
       expect |-> <<TILDE>>],
      [text |-> <<60, 83, 116, 114, 105, 107, 101, 62>>,         \* <Strike>
       expect |-> <<TILDE>>],
      [text |-> <<60, 100, 101, 108, 32, 99, 105, 116, 101, 61, 34, 99, 34, 62>>, \* <del cite="c">
       expect |-> <<TILDE>>],
      [text |-> <<60, 47, 68, 69, 76, 62>>,                      \* </DEL>
       expect |-> <<TILDE>>],
      [text |-> <<60, 115, 112, 97, 110, 62>>,                   \* <span>
       expect |-> <<>>],
      [text |-> <<60, 98, 111, 100, 121, 62>>,                   \* <body>
       expect |-> <<>>],
      [text |-> <<60, 105, 109, 103, 32, 115, 114, 99, 61, 34, 105, 34, 62>>, \* <img src="i">
       expect |-> <<>>],
      [text |-> <<97>>,                                          \* a
       expect |-> <<97>>] }

\* the documents of at most MaxTags inline forms, and <b>a</b>
InlineDocs ==
    Docs(InlineForms, MaxTags) \cup
    { [text |-> <<60, 98, 62, 97, 60, 47, 98, 62>>,            \* <b>a</b>
       expect |-> <<STAR, 97, STAR>>] }

InitInline == \E d \in InlineDocs : Start(d.text)

SpecInline == InitInline /\ [][Next]_vars

\* C8: each b/strong tag is one '*' in the output, each i/em tag one '_', each
\* s/strike/del tag one '~', in any letter case and with any attributes, and a
\* span, body or img tag leaves nothing.
C8_InlineDelimiters ==
    Converted => \A d \in InlineDocs : html = d.text => out = d.expect

\* a strong tag with an attribute next to a body tag: one '*', and nothing
C8_Witness ==
    /\ Converted
    /\ html = <<60, 83, 84, 82, 79, 78, 71, 32, 99, 108, 97, 115, 115, 61, 34, 120, 34, 62>>
              \o <<60, 98, 111, 100, 121, 62>>
    /\ out = <<STAR>>

(***************************************************************************)
(* Inputs of lists: the pieces of lists in any order, and whole lists, one *)
(* of them with a list inside an item.                                     *)
(***************************************************************************)
\* <ul> </ul> <li> </li> <li class="x"> <ol> a space
ListPieces ==
    { <<60, 117, 108, 62>>,
      <<60, 47, 117, 108, 62>>,
      <<60, 108, 105, 62>>,
      <<60, 47, 108, 105, 62>>,
      <<60, 108, 105, 32, 99, 108, 97, 115, 115, 61, 34, 120, 34, 62>>,
      <<60, 111, 108, 62>>,
      <<97>>,
      <<32>> }

\* a list as written, and the bullet lines of its items in their order
ListDocs ==
    { [text |-> <<60, 117, 108, 62, 60, 108, 105, 62, 97, 60, 47, 108, 105, 62, 60, 108, 105, 62, 98, 60, 47, 108, 105, 62, 60, 47, 117, 108, 62>>,
          \* <ul><li>a</li><li>b</li></ul>
       items |-> <<<<8226, 32, 97>>, <<8226, 32, 98>>>>],
      [text |-> <<60, 111, 108, 62, 60, 108, 105, 32, 99, 108, 97, 115, 115, 61, 34, 120, 34, 62, 32, 97, 32, 60, 47, 108, 105, 62, 60, 47, 111, 108, 62>>,
          \* <ol><li class="x"> a </li></ol>
       items |-> <<<<8226, 32, 97>>>>],
      [text |-> <<60, 117, 108, 62, 60, 108, 105, 62, 97, 60, 117, 108, 62, 60, 108, 105, 62, 98, 60, 47, 108, 105, 62, 60, 47, 117, 108, 62, 60, 47, 108, 105, 62, 60, 47, 117, 108, 62>>,
          \* <ul><li>a<ul><li>b</li></ul></li></ul>
       items |-> <<<<8226, 32, 97>>, <<8226, 32, 98>>>>] }

InitList ==
    \E h \in Concats(ListPieces, MaxPieces) \cup {d.text : d \in ListDocs} : Start(h)

SpecList == InitList /\ [][Next]_vars

\* the lines of s that start with the bullet and a space, in their order
BulletLines(s) ==
    LET starts == {i \in 1..Len(s) :
                      (i = 1 \/ s[i - 1] = NL) /\ MatchCS(s, i, <<BULLET, 32>>)}
        line(a) == LET e == FindChar(s, a, NL)
                   IN  SubSeq(s, a, IF e > 0 THEN e - 1 ELSE Len(s))
        nth(k) == CHOOSE a \in starts : Cardinality({b \in starts : b < a}) = k - 1
    IN  [k \in 1..Cardinality(starts) |-> line(nth(k))]

\* C9: every <li> of a list, one inside another item included, has its own line
\* of the output, the bullet and the trimmed content, in the order of the input.
C9_EveryItemHasBulletLine ==
    Converted => \A d \in ListDocs : html = d.text => BulletLines(out) = d.items

(***************************************************************************)
(* Inputs of unrecognized, malformed and unclosed tags, stray brackets and *)
(* the text of the link placeholders.                                      *)
(***************************************************************************)
StripPieces ==
    { <<60, 115, 112, 97, 110, 62>>,                           \* <span>
      <<60, 47, 100, 105, 118, 62>>,                           \* </div>
      <<60, 100, 105, 118, 32, 99, 108, 97, 115, 115, 61, 34, 99, 34>>,  \* <div class="c"
      <<60>>,                                                  \* <
      <<62>>,                                                  \* >
      <<98>>,                                                  \* b
      <<32>>,                                                  \* space
      LINK_START,                                              \* \x00LINK_START
      LINK_END }                                               \* \x00LINK_END

InitStrip == \E h \in Concats(StripPieces, MaxPieces) : Start(h)

SpecStrip == InitStrip /\ [][Next]_vars

\* an anchor that line 30 converts occurs in s
HasAnchor(s) == \E i \in 1..Len(s) : LinkEnd(s, i) > 0

\* '<', one or more characters other than '>', '>' occurs in s
HasTag(s) == \E i \in 1..Len(s) : StripEnd(s, i) > 0

\* C10: the output of an input without anchors and without entities holds no
\* '<', one or more characters other than '>', '>'.
C10_NoTagInOutput ==
    Converted /\ ~HasAnchor(html) /\ ~HasEntity(html) => ~HasTag(out)

(***************************************************************************)
(* Inputs of named, decimal and hexadecimal entities, some of them above   *)
(* 0xFFFF, and of text between them.                                       *)
(***************************************************************************)
\* what is written, and the code units it stands for:
\* 65601 = 65536 + 65, 128512 = 0x1F600 = 65536 + 62976, 0x1004a = 65536 + 74
DecodeForms ==
    { [text |-> <<38, 97, 109, 112, 59>>,                      \* &amp;
       expect |-> <<AMP>>],
      [text |-> <<38, 108, 116, 59>>,                          \* &lt;
       expect |-> <<LT>>],
      [text |-> <<38, 113, 117, 111, 116, 59>>,                \* &quot;
       expect |-> <<QUOTE>>],
      [text |-> <<38, 109, 100, 97, 115, 104, 59>>,            \* &mdash;
       expect |-> <<8212>>],
      [text |-> <<38, 35, 51, 57, 59>>,                        \* &#39;
       expect |-> <<39>>],
      [text |-> <<38, 35, 54, 53, 59>>,                        \* &#65;
       expect |-> <<65>>],
      [text |-> <<38, 35, 54, 53, 54, 48, 49, 59>>,            \* &#65601;
       expect |-> <<65>>],
      [text |-> <<38, 35, 49, 50, 56, 53, 49, 50, 59>>,        \* &#128512;
       expect |-> <<62976>>],
      [text |-> <<38, 35, 120, 52, 49, 59>>,                   \* &#x41;
       expect |-> <<65>>],
      [text |-> <<38, 35, 120, 49, 70, 54, 48, 48, 59>>,       \* &#x1F600;
       expect |-> <<62976>>],
      [text |-> <<38, 35, 120, 49, 48, 48, 52, 97, 59>>,       \* &#x1004a;
       expect |-> <<74>>],
      [text |-> <<97>>,                                        \* a
       expect |-> <<97>>],
      [text |-> <<38>>,                                        \* &
       expect |-> <<AMP>>],
      [text |-> <<59>>,                                        \* ;
       expect |-> <<SEMI>>] }

\* every entity of the table of lines 75-92 between two letters
NamedDocs ==
    { [text |-> <<97, 38, 97, 109, 112, 59, 97>>,              \* a&amp;a
       expect |-> <<97, 38, 97>>],
      [text |-> <<97, 38, 108, 116, 59, 97>>,                  \* a&lt;a
       expect |-> <<97, 60, 97>>],
      [text |-> <<97, 38, 103, 116, 59, 97>>,                  \* a&gt;a
       expect |-> <<97, 62, 97>>],
      [text |-> <<97, 38, 110, 98, 115, 112, 59, 97>>,         \* a&nbsp;a
       expect |-> <<97, 32, 97>>],
      [text |-> <<97, 38, 113, 117, 111, 116, 59, 97>>,        \* a&quot;a
       expect |-> <<97, 34, 97>>],
      [text |-> <<97, 38, 35, 51, 57, 59, 97>>,                \* a&#39;a
       expect |-> <<97, 39, 97>>],
      [text |-> <<97, 38, 97, 112, 111, 115, 59, 97>>,         \* a&apos;a
       expect |-> <<97, 39, 97>>],
      [text |-> <<97, 38, 110, 100, 97, 115, 104, 59, 97>>,    \* a&ndash;a
       expect |-> <<97, 8211, 97>>],
      [text |-> <<97, 38, 109, 100, 97, 115, 104, 59, 97>>,    \* a&mdash;a
       expect |-> <<97, 8212, 97>>],
      [text |-> <<97, 38, 104, 101, 108, 108, 105, 112, 59, 97>>, \* a&hellip;a
       expect |-> <<97, 8230, 97>>],
      [text |-> <<97, 38, 108, 97, 113, 117, 111, 59, 97>>,    \* a&laquo;a
       expect |-> <<97, 171, 97>>],
      [text |-> <<97, 38, 114, 97, 113, 117, 111, 59, 97>>,    \* a&raquo;a
       expect |-> <<97, 187, 97>>],
      [text |-> <<97, 38, 98, 117, 108, 108, 59, 97>>,         \* a&bull;a
       expect |-> <<97, 8226, 97>>],
      [text |-> <<97, 38, 99, 111, 112, 121, 59, 97>>,         \* a&copy;a
       expect |-> <<97, 169, 97>>],
      [text |-> <<97, 38, 114, 101, 103, 59, 97>>,             \* a&reg;a
       expect |-> <<97, 174, 97>>],
      [text |-> <<97, 38, 116, 114, 97, 100, 101, 59, 97>>,    \* a&trade;a
       expect |-> <<97, 8482, 97>>] }

DecodeDocs == Docs(DecodeForms, MaxEntities) \cup NamedDocs

InitDecode == \E d \in DecodeDocs : Start(d.text)

SpecDecode == InitDecode /\ [][Next]_vars

Keys == {"k1", "k2"}
Users == {"u1", "u2"}

\* the action_id of the two buttons and the status each handler stores
Actions == {"attending", "not_attending"}
StatusOf(action) ==
    CASE action = "attending" -> "attending"
      [] action = "not_attending" -> "not_attending"

\* where the click comes from: a message of a channel (body.channel and
\* body.message.ts), a channel without a message, or neither
Origins == {"message", "channel", "none"}

\* the bodies Slack may deliver: with a user and a value, or without
Bodies ==
    {[NoClick EXCEPT !.pc = "ack", !.action = a, !.hasValue = TRUE, !.userId = u,
                     !.eventId = k, !.origin = o] :
        a \in Actions, u \in Users, k \in Keys, o \in Origins}
    \cup {[NoClick EXCEPT !.pc = "ack", !.action = a] : a \in Actions}

\* storage.ts lines 134-140: data[eventId] ||= {}; data[eventId][userId] = {status}
Put(data, eventId, userId, status) ==
    LET d == IF eventId \in DOMAIN data THEN data ELSE (eventId :> <<>>) @@ data
    IN  [d EXCEPT ![eventId] = (userId :> status) @@ d[eventId]]

\* getAttendees lines 277-293: the users of the event, split by status
EventAttendance(data, eventId) == IF eventId \in DOMAIN data THEN data[eventId] ELSE <<>>

Attending(data, eventId) ==
    LET ea == EventAttendance(data, eventId)
    IN  {u \in DOMAIN ea : ea[u] = "attending"}

NotAttending(data, eventId) ==
    LET ea == EventAttendance(data, eventId)
    IN  {u \in DOMAIN ea : ea[u] = "not_attending"}

\* readAttendance lines 86-112: the file, or {} when it cannot be read
ReadAttendanceResults == {attendance, <<>>}

\* the click arrives: Bolt calls the handler (clicks are handled in their order)
Click(h) ==
    /\ clicks[h].pc = "idle"
    /\ IF h = 1 THEN TRUE ELSE clicks[h - 1].pc # "idle"
    /\ \E b \in Bodies : clicks' = [clicks EXCEPT ![h] = b]
    /\ UNCHANGED attendance
    /\ UNCHANGED exceptAttendance

\* lines 28-40: await ack(); return without user or value; updateAttendance(...)
Ack(h) ==
    /\ clicks[h].pc = "ack"
    /\ clicks' = [clicks EXCEPT ![h].pc = IF clicks[h].hasValue THEN "read" ELSE "done"]
    /\ UNCHANGED attendance
    /\ UNCHANGED exceptAttendance

\* storage.ts line 133: const data = await readAttendance()
ReadAttendance(h) ==
    /\ clicks[h].pc = "read"
    /\ \E d \in ReadAttendanceResults :
          clicks' = [clicks EXCEPT ![h].pc = "write", ![h].data = d]
    /\ UNCHANGED attendance
    /\ UNCHANGED exceptAttendance

\* after updateAttendance: lines 42-52
AfterUpdate(origin) ==
    CASE origin = "message" -> "update"
      [] origin = "channel" -> "ephemeral"
      [] origin = "none" -> "done"

\* storage.ts lines 134-141: the entry is set in data, await writeAttendance(data);
\* a failed write throws and the handler's catch logs it (lines 53-55)
WriteAttendance(h) ==
    /\ clicks[h].pc = "write"
    /\ \/ /\ attendance' = Put(clicks[h].data, clicks[h].eventId, clicks[h].userId,
                               StatusOf(clicks[h].action))
          /\ clicks' = [clicks EXCEPT ![h].pc = AfterUpdate(clicks[h].origin)]
       \/ /\ clicks' = [clicks EXCEPT ![h].pc = "done", ![h].failed = TRUE]
          /\ UNCHANGED attendance
    /\ UNCHANGED exceptAttendance

\* lines 42-44: await updateMessageAttendance(...), which reads the attendees of
\* the event and rewrites the message; it catches its own errors
UpdateMessageAttendance(h) ==
    /\ clicks[h].pc = "update"
    /\ \E d \in ReadAttendanceResults :
          clicks' = [clicks EXCEPT ![h].pc = "ephemeral",
                                   ![h].attending = Attending(d, clicks[h].eventId),
                                   ![h].notAttending = NotAttending(d, clicks[h].eventId)]
    /\ UNCHANGED attendance
    /\ UNCHANGED exceptAttendance

\* lines 46-55: await client.chat.postEphemeral(...); an error is caught and logged
PostEphemeral(h) ==
    /\ clicks[h].pc = "ephemeral"
    /\ \E ok \in BOOLEAN :
          clicks' = [clicks EXCEPT ![h].pc = "done", ![h].failed = ~ok]
    /\ UNCHANGED attendance
    /\ UNCHANGED exceptAttendance

NextAttendance ==
    \/ \E h \in 1..MaxClicks : Click(h)
    \/ \E h \in 1..MaxClicks : Ack(h)
    \/ \E h \in 1..MaxClicks : ReadAttendance(h)
    \/ \E h \in 1..MaxClicks : WriteAttendance(h)
    \/ \E h \in 1..MaxClicks : UpdateMessageAttendance(h)
    \/ \E h \in 1..MaxClicks : PostEphemeral(h)

InitAttendance == ConverterIdle /\ RestIdle

SpecAttendance == InitAttendance /\ [][NextAttendance]_vars

\* the click of handler h has been handled without error
Handled(h) == clicks[h].pc = "done" /\ clicks[h].hasValue /\ ~clicks[h].failed

\* a later click of the same user on the same key
LaterClick(h) ==
    \E g \in (h + 1)..MaxClicks :
        /\ clicks[g].hasValue
        /\ clicks[g].userId = clicks[h].userId
        /\ clicks[g].eventId = clicks[h].eventId

\* C12: once a click of user u on key k has been handled without error, and u
\* has not clicked on k again, the store holds the clicked status for (k, u);
\* no user is both attending and not attending an event.
C12_ClickIsStored ==
    /\ \A h \in 1..MaxClicks :
          Handled(h) /\ ~LaterClick(h) =>
             /\ clicks[h].userId \in DOMAIN EventAttendance(attendance, clicks[h].eventId)
             /\ attendance[clicks[h].eventId][clicks[h].userId] = StatusOf(clicks[h].action)
    /\ \A k \in Keys : Attending(attendance, k) \cap NotAttending(attendance, k) = {}

(***************************************************************************)
(* Time.  An instant is a number of milliseconds; a timezone is modelled   *)
(* by its offset from UTC; a date is the number of its day.                *)
(***************************************************************************)
HOUR == 60 * 60 * 1000
DAY == 24 * HOUR

Offset(tz) ==
    CASE tz = "UTC" -> 0
      [] tz = "America/Los_Angeles" -> 0 - 8 * HOUR
      [] tz = "Asia/Tokyo" -> 9 * HOUR

\* the date of instant t in timezone tz (Intl.DateTimeFormat with timeZone,
\* luxon's setZone(tz).toFormat('yyyy-MM-dd'))
DateIn(t, tz) == (t + Offset(tz)) \div DAY

\* calendar.ts lines 131-189: the events whose start is today in timezone || 'UTC',
\* today being the date at the time of the call
TodaysEvents(today, timezone) ==
    LET tz == IF timezone = Undefined THEN "UTC" ELSE timezone
        IsToday(e) == DateIn(e.start, tz) = today
    IN  SelectSeq(calendar, IsToday)

\* readConfig (storage.ts lines 167-193): the file, or {} when it cannot be read
ReadConfigResults == {config, NoConfig}

(***************************************************************************)
(* The meeting start alerts: checkAndAnnounceMeetingStarts of              *)
(* src/meetingStartAnnouncements.ts, one step per await.  Calls are        *)
(* interleaved at their awaits; announcedMeetings belongs to the module.   *)
(***************************************************************************)
\* line 55: 5 minutes
WINDOW == 300000

\* line 55: if (timeUntilStart >= 0 && timeUntilStart <= 300000)
InWindowUpTo(timeUntilStart) == timeUntilStart >= 0 /\ timeUntilStart < WINDOW
InWindow(timeUntilStart) == timeUntilStart >= 0 /\ timeUntilStart <= WINDOW

\* lines 101-108: the events that ended more than one hour before now
Ended(events, now) ==
    {events[j].id : j \in {j \in DOMAIN events : events[j].end < now - HOUR}}

\* the call is made (calls start in their order); line 18: await readConfig()
Invoke(r) ==
    /\ checks[r].pc = "idle"
    /\ IF r = 1 THEN TRUE ELSE checks[r - 1].pc # "idle"
    /\ checks' = [checks EXCEPT ![r].pc = "config"]
    /\ UNCHANGED <<announcedMeetings, envVars, exceptStarts>>

\* lines 18-25: the configuration is read; return without channel or calendar;
\* fetchTodaysEvents(calendarId, timezone) takes the bounds of today and calls
\* the calendar
ReadConfig(r) ==
    /\ checks[r].pc = "config"
    /\ \E c \in ReadConfigResults :
          LET timezone == IF c.timezone = Undefined THEN "America/Los_Angeles"
                          ELSE c.timezone
          IN  checks' =
                 IF c.channelId = Undefined \/ c.calendarId = Undefined
                 THEN [checks EXCEPT ![r].pc = "done", ![r].config = c]
                 ELSE [checks EXCEPT ![r].pc = "fetch", ![r].config = c,
                                     ![r].today = DateIn(clock, timezone)]
    /\ UNCHANGED <<announcedMeetings, envVars, exceptStarts>>

\* lines 25-63 and 96-114: the calendar answers or throws (caught at line 115);
\* now = new Date(); the events to announce are filtered; with none of them the
\* clean-up follows at once
FetchTodaysEvents(r) ==
    /\ checks[r].pc = "fetch"
    /\ \/ /\ checks' = [checks EXCEPT ![r].pc = "done", ![r].failed = TRUE]
          /\ UNCHANGED announcedMeetings
       \/ LET c == checks[r].config
              timezone == IF c.timezone = Undefined THEN "America/Los_Angeles"
                          ELSE c.timezone
              events == TodaysEvents(checks[r].today, timezone)
              now == clock
              Announce(e) == /\ e.id \notin announcedMeetings
                             /\ InWindow(e.start - now)
              eventsToAnnounce == SelectSeq(events, Announce)
          IN  /\ checks' = [checks EXCEPT
                    ![r].pc = IF eventsToAnnounce = <<>> THEN "done" ELSE "attendance",
                    ![r].now = now,
                    ![r].events = events,
                    ![r].eventsToAnnounce = eventsToAnnounce,
                    ![r].announcedThen = announcedMeetings]
              /\ announcedMeetings' =
                    IF eventsToAnnounce = <<>>
                    THEN announcedMeetings \ Ended(events, now)
                    ELSE announcedMeetings
    /\ UNCHANGED <<envVars, exceptStarts>>

\* line 67: await fetchEventsWithAttendance(eventsToAnnounce, config.timezone)
FetchAttendance(r) ==
    /\ checks[r].pc = "attendance"
    /\ \/ checks' = [checks EXCEPT ![r].pc = "post", ![r].i = 1]
       \/ checks' = [checks EXCEPT ![r].pc = "done", ![r].failed = TRUE]
    /\ UNCHANGED <<announcedMeetings, envVars, exceptStarts>>

\* lines 69-114: await postMessage for the i-th event, then
\* announcedMeetings.add(event.id); after the last one the clean-up; an error
\* of Slack ends the call in the catch of line 115
PostMessage(r) ==
    /\ checks[r].pc = "post"
    /\ \/ /\ checks' = [checks EXCEPT ![r].pc = "done", ![r].failed = TRUE]
          /\ UNCHANGED announcedMeetings
       \/ LET id == checks[r].eventsToAnnounce[checks[r].i].id
              last == checks[r].i = Len(checks[r].eventsToAnnounce)
          IN  /\ checks' = [checks EXCEPT
                    ![r].posted = Append(@, id),
                    ![r].i = @ + 1,
                    ![r].pc = IF last THEN "done" ELSE "post"]
              /\ announcedMeetings' =
                    IF last
                    THEN (announcedMeetings \cup {id}) \
                            Ended(checks[r].events, checks[r].now)
                    ELSE announcedMeetings \cup {id}
    /\ UNCHANGED <<envVars, exceptStarts>>

\* the meetings of the calendar: e1 at noon, e2 five minutes later, e3 at noon of
\* the next day
NOON == DAY + 12 * HOUR

Meetings ==
    << [id |-> "e1", recurringEventId |-> Undefined, start |-> NOON,
        end |-> NOON + HOUR],
       [id |-> "e2", recurringEventId |-> Undefined, start |-> NOON + WINDOW,
        end |-> NOON + WINDOW + HOUR],
       [id |-> "e3", recurringEventId |-> Undefined, start |-> NOON + DAY,
        end |-> NOON + DAY + HOUR] >>

\* the instants at which the clock is read
Instants ==
    { NOON - WINDOW - 1, NOON - WINDOW, NOON - 1, NOON, NOON + 1, NOON + WINDOW,
      NOON + 2 * HOUR + 1, NOON + DAY - WINDOW }

\* time passes
Tick ==
    /\ \E t \in Instants : t > clock /\ clock' = t
    /\ UNCHANGED <<config, calendar, startsVars, exceptStarts>>

StartsConfigs ==
    {[NoConfig EXCEPT !.channelId = ch, !.calendarId = cal, !.timezone = tz] :
        ch \in {"C1", Undefined}, cal \in {"cal", Undefined},
        tz \in {"Asia/Tokyo", Undefined}}

NextStarts ==
    \/ \E r \in 1..MaxChecks : Invoke(r)
    \/ \E r \in 1..MaxChecks : ReadConfig(r)
    \/ \E r \in 1..MaxChecks : FetchTodaysEvents(r)
    \/ \E r \in 1..MaxChecks : FetchAttendance(r)
    \/ \E r \in 1..MaxChecks : PostMessage(r)
    \/ Tick

InitStarts ==
    /\ ConverterIdle /\ AttendanceIdle /\ StartsIdle /\ WeeklyIdle /\ KeyedIdle
    /\ RequestIdle /\ CommandIdle /\ SyncIdle
    /\ RemindersIdle
    /\ config \in StartsConfigs
    /\ calendar = Meetings
    /\ clock = NOON - WINDOW - 1

SpecStarts == InitStarts /\ [][NextStarts]_vars

\* the number of messages the calls have posted for event id
Announcements(id) ==
    LET of(r) == Cardinality({j \in DOMAIN checks[r].posted : checks[r].posted[j] = id})
        sum[r \in 0..MaxChecks] == IF r = 0 THEN 0 ELSE sum[r - 1] + of(r)
    IN  sum[MaxChecks]

\* C19: whatever the order and the interleaving of the calls, each event id is
\* announced at most once.
C19_AnnouncedAtMostOnce ==
    \A j \in DOMAIN Meetings : Announcements(Meetings[j].id) <= 1

(***************************************************************************)
(* One call of checkAndAnnounceMeetingStarts, made at any of the instants  *)
(* after earlier calls have announced what they found.                     *)
(***************************************************************************)
\* what earlier calls have left in announcedMeetings, and from which instant on
EarlierChecks ==
    { [at |-> NOON - WINDOW - 1, ids |-> {}],
      [at |-> NOON - WINDOW, ids |-> {"e1"}],
      [at |-> NOON, ids |-> {"e1", "e2"}],
      [at |-> NOON + 1, ids |-> {"e2"}] }

NextCheck ==
    \/ Invoke(1)
    \/ ReadConfig(1)
    \/ FetchTodaysEvents(1)
    \/ FetchAttendance(1)
    \/ PostMessage(1)
    \/ Tick

InitCheck ==
    /\ ConverterIdle /\ AttendanceIdle /\ WeeklyIdle /\ KeyedIdle /\ RemindersIdle
    /\ RequestIdle /\ CommandIdle /\ SyncIdle
    /\ config \in StartsConfigs
    /\ calendar = Meetings
    /\ clock \in Instants
    /\ checks = [r \in 1..MaxChecks |-> NoCheck]
    /\ \E p \in EarlierChecks : p.at <= clock /\ announcedMeetings = p.ids

SpecCheck == InitCheck /\ [][NextCheck]_vars

getAttendanceKeyOfId(event, timezone) == <<event.id, -1>>
getAttendanceKey(event, timezone) ==
    IF event.recurringEventId # Undefined
    THEN LET tz == IF timezone = Undefined THEN "UTC" ELSE timezone
         IN  <<event.recurringEventId, DateIn(event.start, tz)>>
    ELSE <<event.id, -1>>

(***************************************************************************)
(* The weekly announcement: postWeeklyAnnouncement of src/announcements.ts *)
(* with groupEventsByDate and getSortedDateKeys of                         *)
(* src/services/eventService.ts.  A message is its sequence of blocks.     *)
(***************************************************************************)
\* a block of the given type: the date of a header, the event of a section, the
\* values of the two buttons of an actions block
Block(type) ==
    [type |-> type, date |-> -1, event |-> "", attending |-> <<"", -1>>,
     notAttending |-> <<"", -1>>]

\* calendar.ts lines 88-122: the events between now and seven days later
WeeklyEvents(now) ==
    LET InRange(e) == e.end > now /\ e.start < now + 7 * DAY
    IN  SelectSeq(calendar, InRange)

\* calendar.ts lines 273-283: the date of the start, in the timezone when there
\* is one, else in the timezone of the process
formatEventDate(event, timezone, localTz) ==
    DateIn(event.start, IF timezone = Undefined THEN localTz ELSE timezone)

\* modalBlocks.ts lines 501-513: section, buttons, divider
buildEventWithButtons(event, attendanceKey) ==
    << [Block("section") EXCEPT !.event = event.id],
       [Block("actions") EXCEPT !.attending = attendanceKey,
                                !.notAttending = attendanceKey],
       Block("divider") >>

\* lines 121-153: the blocks of the message.  eventService.ts lines 59-82: the
\* events are grouped by event.start.toDateString(), the date of the start in
\* the timezone of the process, and the groups are sorted by that date
WeeklyBlocks(events, cfg, localTz) ==
    LET dateKey(e) == DateIn(e.start, localTz)
        sortedDates == {dateKey(events[j]) : j \in DOMAIN events}
        dateBlocks(d) ==
            LET OfDate(e) == dateKey(e) = d
                dateEvents == SelectSeq(events, OfDate)
                eventBlocks[k \in 0..Len(dateEvents)] ==
                    IF k = 0 THEN <<>>
                    ELSE eventBlocks[k - 1] \o
                         buildEventWithButtons(dateEvents[k],
                             getAttendanceKey(dateEvents[k], cfg.timezone))
            IN  << [Block("header") EXCEPT
                       !.date = formatEventDate(dateEvents[1], cfg.timezone, localTz)] >>
                \o eventBlocks[Len(dateEvents)]
        blocks[D \in SUBSET sortedDates] ==
            IF D = {} THEN <<Block("intro"), Block("divider")>>
            ELSE blocks[D \ {Max(D)}] \o dateBlocks(Max(D))
    IN  blocks[sortedDates]

\* the job is called; line 107: await readConfig()
InvokeWeekly ==
    /\ weekly.pc = "idle"
    /\ weekly' = [weekly EXCEPT !.pc = "config"]
    /\ UNCHANGED <<envVars, exceptWeekly>>

\* lines 107-114: return without channel or calendar; fetchWeeklyEvents is called
ReadConfigWeekly ==
    /\ weekly.pc = "config"
    /\ \E c \in ReadConfigResults :
          weekly' = [weekly EXCEPT
              !.config = c,
              !.pc = IF c.channelId = Undefined \/ c.calendarId = Undefined
                     THEN "done" ELSE "fetch"]
    /\ UNCHANGED <<envVars, exceptWeekly>>

\* lines 114-130: the calendar throws (lines 162-165 log and rethrow) or answers;
\* return without events; fetchEventsWithAttendance is called
FetchWeeklyEvents ==
    /\ weekly.pc = "fetch"
    /\ \/ weekly' = [weekly EXCEPT !.pc = "done", !.failed = TRUE]
       \/ LET events == WeeklyEvents(clock)
          IN  weekly' = [weekly EXCEPT
                  !.events = events,
                  !.pc = IF events = <<>> THEN "done" ELSE "attendance"]
    /\ UNCHANGED <<envVars, exceptWeekly>>

\* lines 130-159: the attendees arrive, the blocks are built, postMessage is called
FetchAttendanceWeekly ==
    /\ weekly.pc = "attendance"
    /\ \/ weekly' = [weekly EXCEPT !.pc = "done", !.failed = TRUE]
       \/ weekly' = [weekly EXCEPT !.pc = "post"]
    /\ UNCHANGED <<envVars, exceptWeekly>>

\* lines 155-165: Slack takes the message, or throws
PostWeekly ==
    /\ weekly.pc = "post"
    /\ \/ weekly' = [weekly EXCEPT !.pc = "done", !.failed = TRUE]
       \/ weekly' = [weekly EXCEPT
              !.pc = "done",
              !.messages = Append(@, WeeklyBlocks(weekly.events, weekly.config,
                                                  weekly.localTz))]
    /\ UNCHANGED <<envVars, exceptWeekly>>

NextWeekly ==
    \/ InvokeWeekly
    \/ ReadConfigWeekly
    \/ FetchWeeklyEvents
    \/ FetchAttendanceWeekly
    \/ PostWeekly

\* the week: w1 at 01:00 UTC of day 1 (the evening of day 0 in Los Angeles), w2
\* at 20:00 UTC of day 1, w3, an instance of a recurring event, at 20:00 UTC of
\* day 2, and w4 eight days later
Week ==
    << [id |-> "w1", recurringEventId |-> Undefined, start |-> DAY + HOUR,
        end |-> DAY + 2 * HOUR],
       [id |-> "w2", recurringEventId |-> Undefined, start |-> DAY + 20 * HOUR,
        end |-> DAY + 21 * HOUR],
       [id |-> "w3_i", recurringEventId |-> "w3", start |-> 2 * DAY + 20 * HOUR,
        end |-> 2 * DAY + 21 * HOUR],
       [id |-> "w4", recurringEventId |-> Undefined, start |-> 9 * DAY,
        end |-> 9 * DAY + HOUR] >>

Timezones == {"UTC", "America/Los_Angeles", "Asia/Tokyo"}

WeeklyConfigs ==
    {[NoConfig EXCEPT !.channelId = ch, !.calendarId = cal, !.timezone = tz] :
        ch \in {"C1", Undefined}, cal \in {"cal", Undefined},
        tz \in Timezones \cup {Undefined}}

InitWeekly ==
    /\ ConverterIdle /\ AttendanceIdle /\ StartsIdle /\ KeyedIdle /\ RemindersIdle
    /\ RequestIdle /\ CommandIdle /\ SyncIdle
    /\ config \in WeeklyConfigs
    /\ calendar \in {<<>>, Week, SubSeq(Week, 2, 4), SubSeq(Week, 4, 4)}
    /\ clock = DAY
    /\ \E tz \in Timezones : weekly = [NoWeekly EXCEPT !.localTz = tz]

SpecWeekly == InitWeekly /\ [][NextWeekly]_vars

\* C14: a call of postWeeklyAnnouncement that ended without error posted nothing
\* when channel or calendar is not configured or no event was fetched; otherwise
\* it posted one message in which every fetched event has one section, under the
\* header of its own date, the headers in ascending order of date, each section
\* followed by the two buttons whose value is the attendance key of the event.
C14_WeeklyMessage ==
    (weekly.pc = "done" /\ ~weekly.failed) =>
        IF \/ weekly.config.channelId = Undefined
           \/ weekly.config.calendarId = Undefined
           \/ weekly.events = <<>>
        THEN weekly.messages = <<>>
        ELSE /\ Len(weekly.messages) = 1
             /\ LET m == weekly.messages[1]
                    tz == weekly.config.timezone
                    headers == {i \in DOMAIN m : m[i].type = "header"}
                IN  /\ \A j \in DOMAIN weekly.events :
                          LET e == weekly.events[j]
                              at == {i \in DOMAIN m : m[i].type = "section"
                                                      /\ m[i].event = e.id}
                          IN  /\ Cardinality(at) = 1
                              /\ \A i \in at :
                                    /\ {h \in headers : h < i} # {}
                                    /\ m[Max({h \in headers : h < i})].date =
                                          formatEventDate(e, tz, weekly.localTz)
                                    /\ m[i + 1].type = "actions"
                                    /\ m[i + 1].attending = getAttendanceKey(e, tz)
                                    /\ m[i + 1].notAttending = getAttendanceKey(e, tz)
                    /\ \A h1, h2 \in headers : h1 < h2 => m[h1].date < m[h2].date

(***************************************************************************)
(* The key of an event when its buttons are built and when its attendees   *)
(* are read later: fetchEventsWithAttendance of                            *)
(* src/services/eventService.ts calls getAttendanceKey on the event as the *)
(* calendar returned it.  An instance of a recurring event may come back   *)
(* with another instance id; its recurringEventId and start are the same.  *)
(***************************************************************************)
\* eventService.ts lines 22-31 and modalBlocks.ts lines 501-513: the key of the
\* event goes on its two buttons
PlaceKey ==
    /\ keyed.pc = "idle"
    /\ keyed' = [keyed EXCEPT !.pc = "placed",
                              !.button = getAttendanceKey(keyed.event, keyed.timezone)]
    /\ UNCHANGED exceptKeyed

\* eventService.ts lines 22-25: a later call computes the key of the event again
\* and reads the attendees under it
ReadKey ==
    /\ keyed.pc = "placed"
    /\ keyed' = [keyed EXCEPT !.pc = "read",
                              !.read = getAttendanceKey(keyed.later, keyed.timezone)]
    /\ UNCHANGED exceptKeyed

NextKeyed == PlaceKey \/ ReadKey

\* events that start at 01:00, at 20:00 and in the last millisecond of day 1 (UTC)
KeyEvents ==
    {[NoEvent EXCEPT !.id = id, !.recurringEventId = rid, !.start = t,
                     !.end = t + HOUR] :
        id \in {"i1", "i2"}, rid \in {"r1", Undefined},
        t \in {DAY + HOUR, DAY + 20 * HOUR, 2 * DAY - 1}}

InitKeyed ==
    /\ ConverterIdle /\ AttendanceIdle /\ EnvIdle /\ StartsIdle /\ WeeklyIdle
    /\ RequestIdle /\ CommandIdle /\ SyncIdle
    /\ RemindersIdle
    /\ \E e \in KeyEvents, id \in {"i1", "i2"}, tz \in Timezones \cup {Undefined} :
          /\ e.recurringEventId = Undefined => id = e.id
          /\ keyed = [NoKeyed EXCEPT !.timezone = tz, !.event = e,
                                     !.later = [e EXCEPT !.id = id]]

SpecKeyed == InitKeyed /\ [][NextKeyed]_vars

\* C18: the key of an event with a recurringEventId is that id and the date of
\* the start in the timezone (UTC without one), whatever the instance id; the
\* key of any other event is its id; the key on the buttons and the key under
\* which the attendees are read later are equal.
C18_KeyStable ==
    /\ keyed.pc # "idle" =>
          keyed.button =
             IF keyed.event.recurringEventId = Undefined
             THEN <<keyed.event.id, -1>>
             ELSE <<keyed.event.recurringEventId,
                    (keyed.event.start +
                        Offset(IF keyed.timezone = Undefined THEN "UTC"
                               ELSE keyed.timezone)) \div DAY>>
    /\ keyed.pc = "read" => keyed.read = keyed.button

\* an instance of r1 that starts at 20:00 UTC, the next day in Tokyo, came back
\* with another instance id and has the same key
C18_Witness ==
    /\ keyed.pc = "read"
    /\ keyed.event.id = "i1"
    /\ keyed.later.id = "i2"
    /\ keyed.timezone = "Asia/Tokyo"
    /\ keyed.event.start = DAY + 20 * HOUR
    /\ keyed.read = <<"r1", 2>>

(***************************************************************************)
(* The daily reminders: postDailyReminders of src/reminders.ts, one step   *)
(* per await.  postedRemindersToday and lastReminderDate belong to the     *)
(* module.  An element of the set is the list of ids it was made of (one   *)
(* id, or the ids joined by ','); with it the model keeps the date of the   *)
(* call that added it, which the program does not read.                    *)
(***************************************************************************)
\* Set.prototype.has
Has(set, key) == \E x \in set : x.key = key

\* lines 72-73 without the add of the joined ids
MarkPostedEach(set, events, on) ==
    LET ids == [j \in DOMAIN events |-> events[j].id]
        keys == {<<ids[j]>> : j \in DOMAIN ids}
    IN  set \cup {[key |-> k, on |-> on] : k \in {k \in keys : ~Has(set, k)}}

\* lines 72-73: every id and the joined ids are added
MarkPosted(set, events, on) ==
    LET ids == [j \in DOMAIN events |-> events[j].id]
        keys == {<<ids[j]>> : j \in DOMAIN ids} \cup {ids}
    IN  set \cup {[key |-> k, on |-> on] : k \in {k \in keys : ~Has(set, k)}}

\* the call is made (calls start in their order); line 21: await readConfig()
InvokeReminders(r) ==
    /\ reminders[r].pc = "idle"
    /\ IF r = 1 THEN TRUE ELSE reminders[r - 1].pc # "idle"
    /\ reminders' = [reminders EXCEPT ![r].pc = "config"]
    /\ UNCHANGED <<postedRemindersToday, lastReminderDate, envVars, exceptReminders>>

\* lines 37-41: if (lastReminderDate !== today) { clear(); lastReminderDate = today }
ResetTracking(today) ==
    IF lastReminderDate # today
    THEN postedRemindersToday' = {} /\ lastReminderDate' = today
    ELSE UNCHANGED <<postedRemindersToday, lastReminderDate>>

\* lines 21-47: return without channel or calendar; the date of today in
\* config.timezone || 'UTC'; the reset on a new day; the two calls of the calendar
ReadConfigReminders(r) ==
    /\ reminders[r].pc = "config"
    /\ \E c \in ReadConfigResults :
          IF c.channelId = Undefined \/ c.calendarId = Undefined
          THEN /\ reminders' = [reminders EXCEPT ![r].pc = "done", ![r].config = c]
               /\ UNCHANGED <<postedRemindersToday, lastReminderDate>>
          ELSE LET tz == IF c.timezone = Undefined THEN "UTC" ELSE c.timezone
                   today == DateIn(clock, tz)
               IN  /\ reminders' = [reminders EXCEPT
                          ![r].pc = "fetch", ![r].config = c, ![r].today = today,
                          ![r].reset = (lastReminderDate # today)]
                   /\ ResetTracking(today)
    /\ UNCHANGED <<envVars, exceptReminders>>

\* the first await after the check of lines 64-73
AfterCheck(todayEvents, tomorrowEvents) ==
    IF todayEvents # <<>> THEN "today"
    ELSE IF tomorrowEvents # <<>> THEN "tomorrow" ELSE "post"

\* lines 44-90: the calendar throws (lines 154-157 log and rethrow) or answers;
\* return without events; return when the joined ids are in the set; else the
\* ids are added and the blocks are built up to the next await
FetchReminders(r) ==
    /\ reminders[r].pc = "fetch"
    /\ \/ /\ reminders' = [reminders EXCEPT ![r].pc = "done", ![r].failed = TRUE]
          /\ UNCHANGED postedRemindersToday
       \/ LET todayEvents == TodaysEvents(reminders[r].today, reminders[r].config.timezone)
              tomorrowEvents ==
                  TodaysEvents(reminders[r].today + 1, reminders[r].config.timezone)
              all == todayEvents \o tomorrowEvents
              allEventIds == [j \in DOMAIN all |-> all[j].id]
          IN  IF all = <<>>
              THEN /\ reminders' = [reminders EXCEPT ![r].pc = "done"]
                   /\ UNCHANGED postedRemindersToday
              ELSE IF Has(postedRemindersToday, allEventIds)
              THEN /\ reminders' = [reminders EXCEPT
                          ![r].pc = "done", ![r].skipped = TRUE,
                          ![r].todayEvents = todayEvents,
                          ![r].tomorrowEvents = tomorrowEvents]
                   /\ UNCHANGED postedRemindersToday
              ELSE /\ reminders' = [reminders EXCEPT
                          ![r].pc = AfterCheck(todayEvents, tomorrowEvents),
                          ![r].todayEvents = todayEvents,
                          ![r].tomorrowEvents = tomorrowEvents]
                   /\ postedRemindersToday' =
                          MarkPosted(postedRemindersToday, all, reminders[r].today)
    /\ UNCHANGED <<lastReminderDate, envVars, exceptReminders>>

\* lines 87-103: await fetchEventsWithAttendance(todayEvents, ...)
AttendanceToday(r) ==
    /\ reminders[r].pc = "today"
    /\ \/ reminders' = [reminders EXCEPT ![r].pc = "done", ![r].failed = TRUE]
       \/ reminders' = [reminders EXCEPT
              ![r].pc = AfterCheck(<<>>, reminders[r].tomorrowEvents)]
    /\ UNCHANGED <<postedRemindersToday, lastReminderDate, envVars, exceptReminders>>

\* lines 106-122: await fetchEventsWithAttendance(tomorrowEvents, ...)
AttendanceTomorrow(r) ==
    /\ reminders[r].pc = "tomorrow"
    /\ \/ reminders' = [reminders EXCEPT ![r].pc = "done", ![r].failed = TRUE]
       \/ reminders' = [reminders EXCEPT ![r].pc = "post"]
    /\ UNCHANGED <<postedRemindersToday, lastReminderDate, envVars, exceptReminders>>

\* lines 145-157: Slack takes the message, or throws
PostReminders(r) ==
    /\ reminders[r].pc = "post"
    /\ \/ reminders' = [reminders EXCEPT ![r].pc = "done", ![r].failed = TRUE]
       \/ reminders' = [reminders EXCEPT ![r].pc = "done", ![r].posted = TRUE]
    /\ UNCHANGED <<postedRemindersToday, lastReminderDate, envVars, exceptReminders>>

\* time passes: the morning of day 1, an hour later, and the morning of day 2
Mornings == {DAY + 8 * HOUR, DAY + 9 * HOUR, 2 * DAY + 8 * HOUR}

TickReminders ==
    /\ \E t \in Mornings : t > clock /\ clock' = t
    /\ UNCHANGED <<config, calendar, remindersVars, exceptReminders>>

NextReminders ==
    \/ \E r \in 1..MaxReminders : InvokeReminders(r)
    \/ \E r \in 1..MaxReminders : ReadConfigReminders(r)
    \/ \E r \in 1..MaxReminders : FetchReminders(r)
    \/ \E r \in 1..MaxReminders : AttendanceToday(r)
    \/ \E r \in 1..MaxReminders : AttendanceTomorrow(r)
    \/ \E r \in 1..MaxReminders : PostReminders(r)
    \/ TickReminders

\* d1 at noon of day 1, d2 at noon of day 2
Days ==
    << [NoEvent EXCEPT !.id = "d1", !.start = DAY + 12 * HOUR,
                       !.end = DAY + 13 * HOUR],
       [NoEvent EXCEPT !.id = "d2", !.start = 2 * DAY + 12 * HOUR,
                       !.end = 2 * DAY + 13 * HOUR] >>

RemindersConfigs ==
    { NoConfig,
      [NoConfig EXCEPT !.channelId = "C1", !.calendarId = "cal"],
      [NoConfig EXCEPT !.channelId = "C1", !.calendarId = "cal",
                       !.timezone = "America/Los_Angeles"] }

InitReminders ==
    /\ ConverterIdle /\ AttendanceIdle /\ StartsIdle /\ WeeklyIdle /\ KeyedIdle
    /\ RequestIdle /\ CommandIdle /\ SyncIdle
    /\ RemindersIdle
    /\ config \in RemindersConfigs
    /\ calendar \in {<<>>, Days, SubSeq(Days, 2, 2)}
    /\ clock = DAY + 8 * HOUR

SpecReminders == InitReminders /\ [][NextReminders]_vars

\* the ids a call fetched, today's then tomorrow's
FetchedIds(r) ==
    LET all == reminders[r].todayEvents \o reminders[r].tomorrowEvents
    IN  [j \in DOMAIN all |-> all[j].id]

\* call r is at lines 37-41 and sees a date that is not lastReminderDate
ObservesNewDay(r) ==
    /\ reminders[r].pc = "config"
    /\ reminders'[r].pc = "fetch"
    /\ reminders'[r].today # lastReminderDate

\* two calls that saw the same date and fetched the same ids did not both post
OneReminderPerDay ==
    \A r1, r2 \in 1..MaxReminders :
        (/\ r1 # r2
         /\ reminders[r1].posted
         /\ reminders[r2].posted
         /\ reminders[r1].today = reminders[r2].today)
        => FetchedIds(r1) # FetchedIds(r2)

\* the set loses entries, and the recorded date changes, exactly in the step of
\* a call that sees a date other than the recorded one; the set is then emptied
\* and the date recorded
ResetOnNewDay ==
    [][/\ (\/ ~(postedRemindersToday \subseteq postedRemindersToday')
           \/ lastReminderDate' # lastReminderDate)
          => \E r \in 1..MaxReminders : ObservesNewDay(r)
       /\ \A r \in 1..MaxReminders :
             ObservesNewDay(r) =>
                /\ postedRemindersToday' = {}
                /\ lastReminderDate' = reminders'[r].today]_vars

\* C20: two calls of postDailyReminders that see the same date and fetch the
\* same ids do not both post a message, and a call that has seen a new date and
\* reset the set is not stopped by an entry of a call of an earlier date.
C20_OneReminderPerDay ==
    /\ OneReminderPerDay
    /\ \A r \in 1..MaxReminders :
          reminders[r].reset /\ reminders[r].skipped =>
             \A x \in postedRemindersToday :
                 x.key = FetchedIds(r) => x.on >= reminders[r].today


\* ---------------------------------------------------------------------------
\* The trigger endpoints (src/app.ts): each one awaits its job and answers
\* ---------------------------------------------------------------------------

Endpoints == {"/api/weekly-announcement", "/api/daily-reminder", "/api/meeting-starts"}

\* the handler enters its try block and calls the job, which runs up to its
\* first await, the read of the configuration
Post(ep) ==
    /\ request.pc = "none"
    /\ request' = [request EXCEPT !.pc = "running", !.endpoint = ep]
    /\ CASE ep = "/api/weekly-announcement" ->
              /\ weekly.pc = "idle"
              /\ weekly' = [weekly EXCEPT !.pc = "config"]
              /\ UNCHANGED <<startsVars, remindersVars>>
         [] ep = "/api/daily-reminder" ->
              /\ reminders[1].pc = "idle"
              /\ reminders' = [reminders EXCEPT ![1].pc = "config"]
              /\ UNCHANGED <<startsVars, weekly, postedRemindersToday, lastReminderDate>>
         [] ep = "/api/meeting-starts" ->
              /\ checks[1].pc = "idle"
              /\ checks' = [checks EXCEPT ![1].pc = "config"]
              /\ UNCHANGED <<announcedMeetings, weekly, remindersVars>>
    /\ UNCHANGED <<converterVars, attendanceVars, envVars, keyed, command, sync>>

\* the promise of the job is settled
Settled(ep) ==
    CASE ep = "/api/weekly-announcement" -> weekly.pc = "done"
      [] ep = "/api/daily-reminder" -> reminders[1].pc = "done"
      [] ep = "/api/meeting-starts" -> checks[1].pc = "done"

\* a calendar call, an attendance read or a Slack call of the job raised an error
Raised(ep) ==
    CASE ep = "/api/weekly-announcement" -> weekly.failed
      [] ep = "/api/daily-reminder" -> reminders[1].failed
      [] ep = "/api/meeting-starts" -> checks[1].failed

\* the promise of the job is rejected: postWeeklyAnnouncement and
\* postDailyReminders log the error and throw it again, the catch of
\* checkAndAnnounceMeetingStarts only logs it
Rejected(ep) ==
    CASE ep = "/api/weekly-announcement" -> weekly.failed
      [] ep = "/api/daily-reminder" -> reminders[1].failed
      [] ep = "/api/meeting-starts" -> FALSE

\* the await returns and the handler answers 200, or throws and it answers 500
Respond ==
    /\ request.pc = "running"
    /\ Settled(request.endpoint)
    /\ request' = IF Rejected(request.endpoint)
                  THEN [request EXCEPT !.pc = "answered", !.status = 500,
                                       !.success = FALSE]
                  ELSE [request EXCEPT !.pc = "answered", !.status = 200,
                                       !.success = TRUE]
    /\ UNCHANGED <<converterVars, attendanceVars, envVars, startsVars, weekly, keyed,
                   remindersVars, command, sync>>

NextEndpoints ==
    \/ \E ep \in Endpoints : Post(ep)
    \/ ReadConfigWeekly
    \/ FetchWeeklyEvents
    \/ FetchAttendanceWeekly
    \/ PostWeekly
    \/ ReadConfigReminders(1)
    \/ FetchReminders(1)
    \/ AttendanceToday(1)
    \/ AttendanceTomorrow(1)
    \/ PostReminders(1)
    \/ ReadConfig(1)
    \/ FetchTodaysEvents(1)
    \/ FetchAttendance(1)
    \/ PostMessage(1)
    \/ Respond

EndpointConfigs ==
    { NoConfig,
      [NoConfig EXCEPT !.channelId = "C1", !.calendarId = "cal"],
      [NoConfig EXCEPT !.channelId = "C1", !.calendarId = "cal",
                       !.timezone = "Asia/Tokyo"] }

InitEndpoints ==
    /\ ConverterIdle /\ AttendanceIdle /\ StartsIdle /\ WeeklyIdle /\ KeyedIdle
    /\ RemindersIdle /\ RequestIdle /\ CommandIdle /\ SyncIdle
    /\ config \in EndpointConfigs
    /\ \E at \in {<<Week, DAY>>, <<Meetings, NOON>>, <<Days, DAY + 8 * HOUR>>} :
          calendar = at[1] /\ clock = at[2]

SpecEndpoints == InitEndpoints /\ [][NextEndpoints]_vars

\* C15: an endpoint that has answered answered 500 with success false when a
\* calendar call or a Slack call of its job raised an error, and 200 with
\* success true when the job completed.
C15_EndpointAnswers ==
    request.pc = "answered" =>
        IF Raised(request.endpoint)
        THEN request.status = 500 /\ ~request.success
        ELSE request.status = 200 /\ request.success

\* the same for the two endpoints whose job throws its error again
AnswersOfRethrowingJobs ==
    (request.pc = "answered" /\ request.endpoint # "/api/meeting-starts") =>
        IF Raised(request.endpoint)
        THEN request.status = 500 /\ ~request.success
        ELSE request.status = 200 /\ request.success


\* ---------------------------------------------------------------------------
\* syncSchedulerWithConfig (src/cloudScheduler.ts) and its caller, the handler
\* of the configuration modal (src/config.ts)
\* ---------------------------------------------------------------------------

Num(v) == [finite |-> TRUE, value |-> v]

Time(h, m) == [defined |-> TRUE, hours |-> h, minutes |-> m]

\* Number.isFinite(n) && n >= lo && n <= hi
InRange(n, lo, hi) == n.finite /\ n.value >= lo /\ n.value <= hi

\* lines 251-258: the test of hours and minutes
ValidTime(time) == InRange(time.hours, 0, 23) /\ InRange(time.minutes, 0, 59)

\* lines 285-297: the tests of the weekly section
WeeklyConfigured(ws) == ws.defined /\ ws.hasDay /\ ws.time.defined
ValidSchedule(ws) == ValidTime(ws.time) /\ InRange(ws.dayOfWeek, 0, 6)

\* what jobs.patch answers: the update is accepted, or the call throws
PatchOutcomes == {"ok", "job not found", "rejected", "unauthenticated"}

\* lines 284-328, up to the await of the patch: the weekly section of a call in
\* state s
WeeklySection(s) ==
    IF ~WeeklyConfigured(s.weeklySchedule)
    THEN [s EXCEPT !.pc = "done"]
    ELSE IF ValidSchedule(s.weeklySchedule)
    THEN [s EXCEPT !.pc = "weekly"]
    ELSE [s EXCEPT !.pc = "done",
                   !.logged = Append(@, "invalid weeklySchedule")]

\* lines 248-281, up to the await of the patch: the daily section
DailySection(s) ==
    IF ~s.reminderTime.defined
    THEN WeeklySection(s)
    ELSE IF ValidTime(s.reminderTime)
    THEN [s EXCEPT !.pc = "daily"]
    ELSE WeeklySection([s EXCEPT !.logged = Append(@, "invalid reminderTime")])

\* lines 239-245: the call with a configuration; getProjectId() throws without a
\* project id in the environment, otherwise initAuth() is awaited
CallSync(reminderTime, weeklySchedule, timezone) ==
    /\ sync.pc = "idle"
    /\ LET s == [sync EXCEPT !.reminderTime = reminderTime,
                             !.weeklySchedule = weeklySchedule,
                             !.timezone = timezone]
       IN  sync' = IF s.projectId = Undefined
                   THEN [s EXCEPT !.pc = "done", !.threw = TRUE]
                   ELSE [s EXCEPT !.pc = "auth"]
    /\ UNCHANGED <<converterVars, attendanceVars, envVars, startsVars, weekly, keyed,
                   remindersVars, request, command>>

\* lines 218-225 and 245: initAuth() returns
InitAuth ==
    /\ sync.pc = "auth"
    /\ sync' = DailySection(sync)
    /\ UNCHANGED <<converterVars, attendanceVars, envVars, startsVars, weekly, keyed,
                   remindersVars, request, command>>

\* lines 259-276: the patch of daily-reminder answers; its catch logs
PatchDaily ==
    /\ sync.pc = "daily"
    /\ \E outcome \in PatchOutcomes :
          LET t == sync.reminderTime
              tz == IF sync.timezone = Undefined THEN "America/Los_Angeles"
                    ELSE sync.timezone
              patch == [job |-> "daily-reminder",
                        schedule |-> <<t.minutes.value, t.hours.value>>,
                        timeZone |-> tz]
          IN  sync' = WeeklySection(
                         IF outcome = "ok"
                         THEN [sync EXCEPT !.patches = Append(@, patch)]
                         ELSE [sync EXCEPT !.logged = Append(@, "daily-reminder")])
    /\ UNCHANGED <<converterVars, attendanceVars, envVars, startsVars, weekly, keyed,
                   remindersVars, request, command>>

\* lines 298-320: the patch of weekly-announcement answers; its catch logs
PatchWeekly ==
    /\ sync.pc = "weekly"
    /\ \E outcome \in PatchOutcomes :
          LET ws == sync.weeklySchedule
              tz == IF sync.timezone = Undefined THEN "America/Los_Angeles"
                    ELSE sync.timezone
              patch == [job |-> "weekly-announcement",
                        schedule |-> <<ws.time.minutes.value, ws.time.hours.value,
                                       ws.dayOfWeek.value>>,
                        timeZone |-> tz]
          IN  sync' = IF outcome = "ok"
                      THEN [sync EXCEPT !.pc = "done", !.patches = Append(@, patch)]
                      ELSE [sync EXCEPT !.pc = "done",
                                        !.logged = Append(@, "weekly-announcement")]
    /\ UNCHANGED <<converterVars, attendanceVars, envVars, startsVars, weekly, keyed,
                   remindersVars, request, command>>

\* src/config.ts lines 621-633: the handler of the configuration modal awaits
\* the call in a try block and keeps the message of what it catches
AfterSync ==
    /\ sync.pc = "done"
    /\ sync' = [sync EXCEPT !.pc = "returned", !.schedulerError = sync.threw]
    /\ UNCHANGED <<converterVars, attendanceVars, envVars, startsVars, weekly, keyed,
                   remindersVars, request, command>>

ReminderTimes ==
    { NoTime, Time(Num(9), Num(30)), Time(Num(24), Num(0)), Time(Num(9), Num(60)),
      Time(Num(9), NaN), Time(NaN, NaN) }

WeeklySchedules ==
    { NoSchedule,
      [NoSchedule EXCEPT !.defined = TRUE, !.hasDay = TRUE, !.dayOfWeek = Num(1),
                         !.time = Time(Num(18), Num(0))],
      [NoSchedule EXCEPT !.defined = TRUE, !.hasDay = TRUE, !.dayOfWeek = Num(7),
                         !.time = Time(Num(18), Num(0))],
      [NoSchedule EXCEPT !.defined = TRUE, !.hasDay = TRUE, !.dayOfWeek = Num(0),
                         !.time = Time(Num(18), NaN)],
      [NoSchedule EXCEPT !.defined = TRUE, !.hasDay = TRUE, !.dayOfWeek = NaN,
                         !.time = Time(Num(18), Num(0))],
      [NoSchedule EXCEPT !.defined = TRUE, !.time = Time(Num(18), Num(0))],
      [NoSchedule EXCEPT !.defined = TRUE, !.hasDay = TRUE, !.dayOfWeek = Num(1)] }

NextSync ==
    \/ \E rt \in ReminderTimes, ws \in WeeklySchedules,
          tz \in {Undefined, "Asia/Tokyo"} : CallSync(rt, ws, tz)
    \/ InitAuth
    \/ PatchDaily
    \/ PatchWeekly
    \/ AfterSync

InitSync ==
    /\ ConverterIdle /\ AttendanceIdle /\ EnvIdle /\ StartsIdle /\ WeeklyIdle
    /\ KeyedIdle /\ RemindersIdle /\ RequestIdle /\ CommandIdle
    /\ \E id \in {Undefined, "project"} : sync = [NoSync EXCEPT !.projectId = id]

SpecSync == InitSync /\ [][NextSync]_vars

\* C17: syncSchedulerWithConfig never throws, whatever fails while it
\* synchronizes the two jobs: the failure is logged and the call returns.
C17_SyncNeverThrows == ~sync.threw

\* with a project id in the environment the call returns normally, and it has
\* logged every patch that failed and every time that is invalid
FailuresAreLogged ==
    (sync.pc \in {"done", "returned"} /\ sync.projectId # Undefined) =>
        LET rt == sync.reminderTime
            ws == sync.weeklySchedule
            daily == {i \in DOMAIN sync.patches : sync.patches[i].job = "daily-reminder"}
            wkly == {i \in DOMAIN sync.patches :
                        sync.patches[i].job = "weekly-announcement"}
        IN  /\ ~sync.threw
            /\ rt.defined => (Len(sync.logged) > 0 \/ daily # {})
            /\ WeeklyConfigured(ws) => (Len(sync.logged) > 0 \/ wkly # {})
            /\ Len(sync.patches) + Len(sync.logged) =
                  (IF rt.defined THEN 1 ELSE 0) + (IF WeeklyConfigured(ws) THEN 1 ELSE 0)


\* ---------------------------------------------------------------------------
\* The restricted slash commands: /meeting-config (src/config.ts),
\* /create-event and /update-event (src/eventCommands.ts)
\* ---------------------------------------------------------------------------

\* the field allowedChannels with a list of channel ids
Channels(list) == [defined |-> TRUE, list |-> list]

Includes(list, channelId) == \E i \in DOMAIN list : list[i] = channelId

\* checkChannelRestriction without the test of the length
checkChannelRestrictionOfList(channelId, allowedChannels) ==
    IF ~allowedChannels.defined
    THEN TRUE
    ELSE Includes(allowedChannels.list, channelId)

\* if (!allowedChannels || allowedChannels.length === 0) return true;
\* return allowedChannels.includes(channelId)
checkChannelRestriction(channelId, allowedChannels) ==
    IF ~allowedChannels.defined \/ Len(allowedChannels.list) = 0
    THEN TRUE
    ELSE Includes(allowedChannels.list, channelId)

CommandNames == {"/meeting-config", "/create-event", "/update-event"}

ChannelIds == {"C1", "C2", "C3"}

\* the callback id of the view a command opens
ModalOf(name) ==
    CASE name = "/meeting-config" -> "config_modal"
      [] name = "/create-event" -> "create_event_modal"
      [] name = "/update-event" -> "select_event_modal"

\* everything the commands leave alone
exceptCommand ==
    <<converterVars, attendanceVars, clock, startsVars, weekly, keyed, remindersVars,
      request, sync>>

\* the command arrives: ack() and the read of the configuration are awaited
SlashCommand(name, channel) ==
    /\ command.pc = "none"
    /\ command' = [command EXCEPT !.pc = "config", !.name = name, !.channel = channel]
    /\ UNCHANGED <<config, calendar, exceptCommand>>

\* the configuration is read and the channel tested; the event commands test
\* the calendar id next
CheckChannel ==
    /\ command.pc = "config"
    /\ \E c \in ReadConfigResults :
          command' = [command EXCEPT
              !.config = c,
              !.pc = IF ~checkChannelRestriction(command.channel, c.allowedChannels)
                     THEN "refuse"
                     ELSE IF command.name # "/meeting-config" /\ c.calendarId = Undefined
                     THEN "no calendar"
                     ELSE "open"]
    /\ UNCHANGED <<config, calendar, exceptCommand>>

\* chat.postEphemeral of the refusal, of the missing calendar id or of the error
\* of views.open; the handler returns, or the call throws and the handler ends
SendEphemeral ==
    /\ command.pc \in {"refuse", "no calendar", "open error"}
    /\ \/ command' = [command EXCEPT !.pc = "done",
                                     !.ephemeral = Append(@, command.pc)]
       \/ command' = [command EXCEPT !.pc = "done"]
    /\ UNCHANGED <<config, calendar, exceptCommand>>

\* views.open shows the modal, or throws: /meeting-config logs the error, the
\* event commands send it to the user
OpenView ==
    /\ command.pc = "open"
    /\ \/ command' = [command EXCEPT !.pc = "modal", !.modal = ModalOf(command.name)]
       \/ command' = [command EXCEPT
              !.pc = IF command.name = "/meeting-config" THEN "done" ELSE "open error"]
    /\ UNCHANGED <<config, calendar, exceptCommand>>

\* the user submits the modal: config_modal writes the new configuration,
\* create_event_modal creates an event, select_event_modal leads to
\* update_event_modal, which updates one; or the user closes the modal
SubmitView ==
    /\ command.pc = "modal"
    /\ \/ /\ command.modal = "config_modal"
          /\ \E selected \in {<<>>, <<"C1">>}, cal \in {Undefined, "cal"} :
                config' = [NoConfig EXCEPT
                    !.calendarId = cal,
                    !.timezone = "America/Los_Angeles",
                    !.allowedChannels = IF Len(selected) > 0 THEN Channels(selected)
                                        ELSE NoChannels]
          /\ command' = [command EXCEPT !.pc = "done", !.effect = "writeConfig"]
          /\ UNCHANGED calendar
       \/ /\ command.modal = "create_event_modal"
          /\ calendar' = Append(calendar, [NoEvent EXCEPT !.id = "created",
                                              !.start = DAY, !.end = DAY + HOUR])
          /\ command' = [command EXCEPT !.pc = "done", !.effect = "createCalendarEvent"]
          /\ UNCHANGED config
       \/ /\ command.modal = "select_event_modal"
          /\ calendar # <<>>
          /\ calendar' = [calendar EXCEPT ![1].start = @ + HOUR, ![1].end = @ + HOUR]
          /\ command' = [command EXCEPT !.pc = "done", !.effect = "updateCalendarEvent"]
          /\ UNCHANGED config
       \/ /\ command' = [command EXCEPT !.pc = "done"]
          /\ UNCHANGED <<config, calendar>>
    /\ UNCHANGED exceptCommand

NextCommand ==
    \/ \E name \in CommandNames, channel \in ChannelIds : SlashCommand(name, channel)
    \/ CheckChannel
    \/ SendEphemeral
    \/ OpenView
    \/ SubmitView

CommandConfigs ==
    {[NoConfig EXCEPT !.calendarId = cal, !.allowedChannels = a] :
        cal \in {Undefined, "cal"},
        a \in {NoChannels, Channels(<<>>), Channels(<<"C1">>), Channels(<<"C1", "C2">>)}}

InitCommand ==
    /\ ConverterIdle /\ AttendanceIdle /\ StartsIdle /\ WeeklyIdle /\ KeyedIdle
    /\ RemindersIdle /\ RequestIdle /\ CommandIdle /\ SyncIdle
    /\ config \in CommandConfigs
    /\ calendar = SubSeq(Meetings, 1, 1)
    /\ clock = 0

SpecCommand == InitCommand /\ [][NextCommand]_vars

\* the handler read a list of allowed channels that is not empty and does not
\* hold the channel of the invocation
Restricted ==
    /\ command.config.allowedChannels.defined
    /\ Len(command.config.allowedChannels.list) > 0
    /\ ~Includes(command.config.allowedChannels.list, command.channel)

\* the handler read no list of allowed channels, or an empty one
Unrestricted ==
    \/ ~command.config.allowedChannels.defined
    \/ Len(command.config.allowedChannels.list) = 0

DailyReminderCommand ==
    /\ command.pc = "none"
    /\ reminders[1].pc = "done"
    /\ reminders[2].pc = "idle"
    /\ command' = [command EXCEPT !.pc = "running", !.name = "/daily-reminder",
                                  !.channel = "C1"]
    /\ reminders' = [reminders EXCEPT ![2].pc = "config"]
    /\ UNCHANGED <<converterVars, attendanceVars, envVars, startsVars, weekly, keyed,
                   postedRemindersToday, lastReminderDate, request, sync>>

\* lines 13-25: the call returned and the user is told it was posted, or it
\* threw and the user is told the error
AnswerCommand ==
    /\ command.pc = "running"
    /\ reminders[2].pc = "done"
    /\ command' = [command EXCEPT
           !.pc = "done",
           !.ephemeral = Append(@, IF reminders[2].failed THEN "error" ELSE "posted")]
    /\ UNCHANGED <<converterVars, attendanceVars, envVars, startsVars, weekly, keyed,
                   remindersVars, request, sync>>

NextRetry ==
    \/ InvokeReminders(1)
    \/ DailyReminderCommand
    \/ \E r \in 1..2 : ReadConfigReminders(r)
    \/ \E r \in 1..2 : FetchReminders(r)
    \/ \E r \in 1..2 : AttendanceToday(r)
    \/ \E r \in 1..2 : AttendanceTomorrow(r)
    \/ \E r \in 1..2 : PostReminders(r)
    \/ AnswerCommand
    \/ TickReminders

SpecRetry == InitReminders /\ [][NextRetry]_vars

\* call r has marked its events (lines 72-73) and has not ended yet
Marking(r) == reminders[r].pc \in {"today", "tomorrow", "post"}

\* call r failed after it had marked its events: while it read the attendance
\* or while it sent the message
FailedWhilePosting(r) ==
    /\ reminders[r].pc = "done"
    /\ reminders[r].failed
    /\ ~reminders[r].skipped
    /\ FetchedIds(r) # <<>>

SetEntry(data, eventId, userId, entry) ==
    LET d == IF eventId \in DOMAIN data THEN data ELSE (eventId :> <<>>) @@ data
    IN  [d EXCEPT ![eventId] = (userId :> entry) @@ d[eventId]]

\* lines 149-158: the updates are applied in their order, with one timestamp
RECURSIVE ApplyUpdates(_, _, _)
ApplyUpdates(data, updates, timestamp) ==
    IF updates = <<>>
    THEN data
    ELSE ApplyUpdates(
             SetEntry(data, updates[1].eventId, updates[1].userId,
                      [status |-> updates[1].status, timestamp |-> timestamp]),
             Tail(updates), timestamp)

\* an update of a batch
Updates ==
    [eventId : Keys, userId : Users, status : {"attending", "not_attending"}]

\* the lists a call is given: one update for updateAttendance, up to
\* MaxUpdates for batchUpdateAttendance
RECURSIVE UpdateLists(_)
UpdateLists(n) ==
    IF n = 0
    THEN {<<>>}
    ELSE LET shorter == UpdateLists(n - 1)
         IN  shorter \cup
                 {Append(l, u) : l \in {l \in shorter : Len(l) = n - 1}, u \in Updates}

\* everything the calls leave alone
exceptStore ==
    <<converterVars, clicks, envVars, startsVars, weekly, keyed, remindersVars,
      handlerVars>>

\* lines 128-133, 143-148: the call is made; await readAttendance()
CallUpdate(updates) ==
    /\ store.pc = "idle"
    /\ store' = [store EXCEPT !.pc = "read", !.updates = updates,
                              !.before = attendance]
    /\ UNCHANGED <<attendance, exceptStore>>

\* lines 86-112 and 54-71: readAttendance answers the content, or {} when the
\* file is missing, cannot be read or cannot be parsed; the timestamp is taken
ReadStore ==
    /\ store.pc = "read"
    /\ \E d \in ReadAttendanceResults :
          store' = [store EXCEPT !.pc = "write", !.data = d, !.timestamp = clock]
    /\ UNCHANGED <<attendance, exceptStore>>

\* lines 134-141, 150-163: the entries are set in data and data is written;
\* a failed write throws
WriteStore ==
    /\ store.pc = "write"
    /\ \/ /\ attendance' = ApplyUpdates(store.data, store.updates, store.timestamp)
          /\ store' = [store EXCEPT !.pc = "done"]
       \/ /\ store' = [store EXCEPT !.pc = "done", !.failed = TRUE]
          /\ UNCHANGED attendance
    /\ UNCHANGED exceptStore

NextStore ==
    \/ \E updates \in UpdateLists(MaxUpdates) : CallUpdate(updates)
    \/ ReadStore
    \/ WriteStore

\* attendance.json before the call: missing, or with entries of earlier hours
Stored ==
    { <<>>,
      ("k1" :> ("u1" :> [status |-> "attending", timestamp |-> HOUR])),
      ("k1" :> (("u1" :> [status |-> "attending", timestamp |-> HOUR])
                @@ ("u2" :> [status |-> "not_attending", timestamp |-> 2 * HOUR])))
      @@ ("k2" :> ("u1" :> [status |-> "attending", timestamp |-> 3 * HOUR])) }

InitStore ==
    /\ ConverterIdle /\ StartsIdle /\ WeeklyIdle /\ KeyedIdle
    /\ RemindersIdle /\ RequestIdle /\ CommandIdle /\ SyncIdle
    /\ clicks = [h \in 1..MaxClicks |-> NoClick]
    /\ store = NoStore
    /\ attendance \in Stored
    /\ config = NoConfig /\ calendar = <<>> /\ clock = 4 * HOUR

SpecStore == InitStore /\ [][NextStore]_vars

\* the (event, user) pairs a call was given
Given(updates) == {<<updates[j].eventId, updates[j].userId>> : j \in DOMAIN updates}

\* the (event, user) pairs of the entries of data
Pairs(data) ==
    {p \in Keys \X Users : p[1] \in DOMAIN data /\ p[2] \in DOMAIN data[p[1]]}

\* every entry of before that the call was not given is in after, unchanged,
\* and after has no entry that is neither in before nor given
SameButGiven(before, after, updates) ==
    /\ \A p \in Pairs(before) \ Given(updates) :
          p \in Pairs(after) /\ after[p[1]][p[2]] = before[p[1]][p[2]]
    /\ Pairs(after) \subseteq Pairs(before) \cup Given(updates)

\* C22: when a call of updateAttendance or batchUpdateAttendance has ended,
\* every stored entry of a pair it was not given has the status and the
\* timestamp it had before the call, also when the read failed.
C22_OnlyGivenEntriesChange ==
    store.pc = "done" => SameButGiven(store.before, attendance, store.updates)

\* the same for the calls whose read answered the content of the file
OthersKeptWhenRead ==
    (store.pc = "done" /\ store.data = store.before) =>
        /\ SameButGiven(store.before, attendance, store.updates)
        /\ ~store.failed =>
              \A j \in DOMAIN store.updates :
                  LET p == <<store.updates[j].eventId, store.updates[j].userId>>
                  IN  /\ p \in Pairs(attendance)
                      /\ attendance[p[1]][p[2]].timestamp = store.timestamp

============================================================================
